---- MODULE Spec2Model ----
(***************************************************************************)
(* MC68000 emulator: the flat big-endian Memory, the CPU's                 *)
(* fetch-decode-execute cycle and the two-pass Assembler, with the driver  *)
(* of the integration tests (assemble, load with write_word, step until    *)
(* the program counter stalls).                                            *)
(*                                                                         *)
(* Number representation.  Bytes are 0..255 and 16-bit words 0..65535.     *)
(* A 32-bit quantity (u32 in the source) is held as the signed value of    *)
(* its bit pattern, -2^31 .. 2^31-1, i.e. the source's `as i32` view; the  *)
(* u32 pattern 0xFFFFFFFF is -1 here.  An address is inside the memory     *)
(* iff 0 <= a < MemSize, which is the same test on either view.            *)
(***************************************************************************)
EXTENDS Integers, Sequences, FiniteSets, TLC

VARIABLES
    mem,        \* Memory.data: the non-zero bytes, address -> 1..255
    cpu,        \* the CPU struct
    asm,        \* the Assembler struct: labels, instructions
    lines,      \* the source lines last given to assemble
    code,       \* the stream assemble returned: sequence of <<address, word>>
    checked,    \* build profile: TRUE = overflow checks on (debug), FALSE = release
    fault,      \* "none", or the panic that ended the run
    before,     \* driver bookkeeping: CPU, memory and fetched word before the last step
    last,       \* driver bookkeeping: the last call made (operation and arguments)
    phase,      \* driver position
    steps,      \* number of calls the driver has made in this phase
    input       \* driver bookkeeping: the parameters the run was set up with

vars == <<mem, cpu, asm, lines, code, checked, fault, before, last, phase, steps, input>>

-----------------------------------------------------------------------------
(* 32-bit arithmetic on the signed view *)

MaxI32 == 2147483647
MinI32 == -MaxI32 - 1

\* value as u16 / value & 0xFFFF
LowWord(v) == v % 65536

\* (value >> 16) as u16 of a u32 bit pattern
HighWord(v) == (v \div 65536) % 65536

\* (high as u32) << 16 | low, as a bit pattern
LongOf(high, low) ==
    IF high >= 32768 THEN (high - 65536) * 65536 + low ELSE high * 65536 + low

\* x as i8 as i32, for x in 0..255
Sext8(x) == IF x >= 128 THEN x - 256 ELSE x

\* x as i16 as i32, for x in 0..65535
Sext16(x) == IF x >= 32768 THEN x - 65536 ELSE x

\* i32 addition: whether it overflows, and the wrapped (release build) result
AddOverflows(x, y) ==
    \/ x >= 0 /\ y >= 0 /\ y > MaxI32 - x
    \/ x < 0 /\ y < 0 /\ y < MinI32 - x

WrappingAdd(x, y) ==
    IF x >= 0 /\ y >= 0 /\ y > MaxI32 - x THEN ((x - MaxI32 - 1) + y) + MinI32
    ELSE IF x < 0 /\ y < 0 /\ y < MinI32 - x THEN (((x + MaxI32) + 1) + y) + MaxI32 + 1
    ELSE x + y

\* i32 subtraction
SubOverflows(x, y) ==
    \/ x >= 0 /\ y < 0 /\ x > MaxI32 + y
    \/ x < 0 /\ y > 0 /\ x < MinI32 + y

WrappingSub(x, y) ==
    IF x >= 0 /\ y < 0 /\ x > MaxI32 + y THEN ((x - MaxI32 - 1) - y) + MinI32
    ELSE IF x < 0 /\ y > 0 /\ x < MinI32 + y THEN (((x + MaxI32) + 1) - y) + MaxI32 + 1
    ELSE x - y

-----------------------------------------------------------------------------
(* Memory (memory.rs) *)

MemSize == 16 * 1024 * 1024

InMem(a) == 0 <= a /\ a < MemSize

\* Memory::new: every byte zero
NewMemory == <<>>

MemRead(m, a) == IF a \in DOMAIN m THEN m[a] ELSE 0

MemPut(m, a, b) ==
    IF b = 0 THEN [x \in DOMAIN m \ {a} |-> m[x]]
    ELSE [x \in DOMAIN m \cup {a} |-> IF x = a THEN b ELSE m[x]]

\* the addresses a call indexes; one outside the vector panics
ByteAddrs(a) == {a}
WordAddrs(a) == {a, a + 1}
LongAddrs(a) == {a, a + 1, a + 2, a + 3}
AllInMem(S) == \A a \in S : InMem(a)

read_byte(m, a) == MemRead(m, a)

write_byte(m, a, value) == MemPut(m, a, value)

read_word(m, a) == MemRead(m, a) * 256 + MemRead(m, a + 1)

\* mutation: the byte after the word is cleared
write_word_clears_next(m, a, value) ==
    MemPut(MemPut(MemPut(m, a, value \div 256), a + 1, value % 256), a + 2, 0)

\* mutation: the two bytes stored low byte first
write_word_low_first(m, a, value) ==
    MemPut(MemPut(m, a, value % 256), a + 1, value \div 256)

write_word(m, a, value) ==
    MemPut(MemPut(m, a, value \div 256), a + 1, value % 256)

read_long(m, a) == LongOf(read_word(m, a), read_word(m, a + 2))

\* mutation: the low word is stored first
write_long_low_word_first(m, a, value) ==
    write_word(write_word(m, a, LowWord(value)), a + 2, HighWord(value))

write_long(m, a, value) ==
    write_word(write_word(m, a, HighWord(value)), a + 2, LowWord(value))

-----------------------------------------------------------------------------
(* CPU (cpu.rs) *)

Regs == 0..7

NewCPU ==
    [ data_registers |-> [r \in Regs |-> 0],
      address_registers |-> [r \in Regs |-> 0],
      program_counter |-> 0,
      condition_code_register |-> 0,
      supervisor_stack_pointer |-> 0,
      vector_base_register |-> 0,
      status_register |-> 0 ]

\* mutation: reset builds a new register file
reset_clears_registers(c) ==
    [ data_registers |-> [r \in 0..7 |-> 0],
      address_registers |-> [r \in 0..7 |-> 0],
      program_counter |-> 0,
      condition_code_register |-> 0,
      supervisor_stack_pointer |-> 0,
      vector_base_register |-> 0,
      status_register |-> 9984 ]

reset(c) ==
    [c EXCEPT !.program_counter = 0,
              !.condition_code_register = 0,
              !.status_register = 9984]    \* 0x2700

set_pc(c, address) == [c EXCEPT !.program_counter = address]

\* bit k of x; x | (1 << k); x & !(1 << k), with w = 1 << k
BitSet(x, w) == (x \div w) % 2 = 1
OrBit(x, w) == IF BitSet(x, w) THEN x ELSE x + w
ClearBit(x, w) == IF BitSet(x, w) THEN x - w ELSE x

\* mutation: a negative result also sets the Carry flag
update_flags_for_result_sets_carry(c, result) ==
    LET z == IF result = 0 THEN OrBit(c.condition_code_register, 4)
             ELSE ClearBit(c.condition_code_register, 4)
        n == IF result < 0 THEN OrBit(OrBit(z, 8), 1) ELSE ClearBit(z, 8)
    IN  [c EXCEPT !.condition_code_register = n]

\* mutation: the Z flag is never set
update_flags_for_result_never_zero(c, result) ==
    LET z == ClearBit(c.condition_code_register, 4)
        n == IF result < 0 THEN OrBit(z, 8) ELSE ClearBit(z, 8)
    IN  [c EXCEPT !.condition_code_register = n]

\* mutation: N is set by a negative result and never cleared
update_flags_for_result_keeps_negative(c, result) ==
    LET z == IF result = 0 THEN OrBit(c.condition_code_register, 4)
             ELSE ClearBit(c.condition_code_register, 4)
        n == IF result < 0 THEN OrBit(z, 8) ELSE z
    IN  [c EXCEPT !.condition_code_register = n]

update_flags_for_result(c, result) ==
    LET z == IF result = 0 THEN OrBit(c.condition_code_register, 4)
             ELSE ClearBit(c.condition_code_register, 4)
        n == IF result < 0 THEN OrBit(z, 8) ELSE ClearBit(z, 8)
    IN  [c EXCEPT !.condition_code_register = n]

\* mutation: no conditional branch is ever taken
check_condition_never(c, condition) == FALSE

check_condition(c, condition) ==
    CASE condition = 0 -> TRUE
      [] condition = 1 -> FALSE
      [] condition = 2 -> BitSet(c.condition_code_register, 1)
      [] condition = 3 -> ~BitSet(c.condition_code_register, 1)
      [] condition = 4 -> ~BitSet(c.condition_code_register, 1)
      [] condition = 5 -> BitSet(c.condition_code_register, 1)
      [] condition = 6 -> ~BitSet(c.condition_code_register, 4)
      [] condition = 7 -> BitSet(c.condition_code_register, 4)
      [] OTHER -> FALSE

\* the outcome of a call: the state it leaves, or the panic that ended it
Done(c, m) == [cpu |-> c, mem |-> m, fault |-> "none"]
Panic(c, m, why) == [cpu |-> c, mem |-> m, fault |-> why]

AdvancePc(c, n) == [c EXCEPT !.program_counter = @ + n]

SetD(c, r, v) == [c EXCEPT !.data_registers[r] = v]
SetA(c, r, v) == [c EXCEPT !.address_registers[r] = v]

\* an i32 result computed with + or -: a panic when the build checks overflow
\* and it overflows, the wrapped value otherwise
Overflowed(chk, overflows) == chk /\ overflows

move_instruction(c, m, instruction) ==
    LET size == (instruction \div 4096) % 4
        dest_reg == (instruction \div 512) % 8
        dest_mode == (instruction \div 64) % 8
        src_mode == (instruction \div 8) % 8
        src_reg == instruction % 8
        ext == c.program_counter + 2
    IN  IF size = 2 /\ dest_mode = 7 /\ src_mode = 7 /\ src_reg = 4 THEN
            IF ~AllInMem(WordAddrs(ext)) THEN Panic(c, m, "index out of bounds")
            ELSE Done(SetD(AdvancePc(c, 4), dest_reg, read_word(m, ext)), m)
        ELSE IF size = 2 /\ dest_mode = 1 /\ src_mode = 7 /\ src_reg = 4 THEN
            IF ~AllInMem(WordAddrs(ext)) THEN Panic(c, m, "index out of bounds")
            ELSE Done(SetA(AdvancePc(c, 4), dest_reg, read_word(m, ext)), m)
        ELSE IF size = 2 /\ dest_mode = 0 /\ src_mode = 2 THEN
            LET address == c.address_registers[src_reg]
            IN  IF ~AllInMem(LongAddrs(address)) THEN Panic(c, m, "index out of bounds")
                ELSE Done(AdvancePc(SetD(c, dest_reg, read_long(m, address)), 2), m)
        ELSE IF size = 2 /\ dest_mode = 2 /\ src_mode = 0 THEN
            LET address == c.address_registers[dest_reg]
                value == c.data_registers[src_reg]
            IN  IF ~AllInMem(LongAddrs(address)) THEN Panic(c, m, "index out of bounds")
                ELSE Done(AdvancePc(c, 2), write_long(m, address, value))
        ELSE IF instruction = 12800 THEN    \* 0x3200
            Done(AdvancePc(update_flags_for_result(
                               SetD(c, 1, c.data_registers[0]), c.data_registers[0]), 2), m)
        ELSE Done(AdvancePc(c, 2), m)

addq_subq_instruction(c, m, instruction, chk) ==
    LET data == (instruction \div 512) % 8
        is_subq == BitSet(instruction, 256)
        reg == instruction % 8
        immediate == IF data = 0 THEN 8 ELSE data
        old_value == c.data_registers[reg]
    IN  IF is_subq THEN
            IF Overflowed(chk, SubOverflows(old_value, immediate))
            THEN Panic(c, m, "attempt to subtract with overflow")
            ELSE LET new_value == WrappingSub(old_value, immediate)
                 IN  Done(AdvancePc(update_flags_for_result(
                                        SetD(c, reg, new_value), new_value), 2), m)
        ELSE
            IF Overflowed(chk, AddOverflows(old_value, immediate))
            THEN Panic(c, m, "attempt to add with overflow")
            ELSE LET new_value == WrappingAdd(old_value, immediate)
                 IN  Done(AdvancePc(update_flags_for_result(
                                        SetD(c, reg, new_value), new_value), 2), m)

\* mutation: the immediate byte is zero-extended
moveq_instruction_zero_extends(c, m, instruction) ==
    LET register == (instruction \div 512) % 8
        immediate == instruction % 256
    IN  Done(AdvancePc(update_flags_for_result(
                           SetD(c, register, immediate), immediate), 2), m)

moveq_instruction(c, m, instruction) ==
    LET register == (instruction \div 512) % 8
        immediate == Sext8(instruction % 256)
    IN  Done(AdvancePc(update_flags_for_result(
                           SetD(c, register, immediate), immediate), 2), m)

\* mutation: the displacement is added to the address of the branch itself
BranchTarget_from_branch(pc, instruction) == pc + Sext8(instruction % 256)

\* the program counter a taken branch at pc leaves; a sum below 0 stands for
\* the u32 it wraps to, 2^32 more, which is outside memory like the sum
BranchTarget(pc, instruction) == pc + Sext8(instruction % 256) + 2

branch_instruction(c, m, instruction) ==
    LET condition == (instruction \div 256) % 16
    IN  IF check_condition(c, condition)
        THEN Done(set_pc(c, BranchTarget(c.program_counter, instruction)), m)
        ELSE Done(AdvancePc(c, 2), m)

\* mutation: an unimplemented word does not advance the PC
unimplemented_instruction_stalls(c, m, instruction) == Done(c, m)

\* mutation: an unimplemented word is logged into memory
unimplemented_instruction_writes(c, m, instruction) ==
    Done(AdvancePc(c, 2), write_word(m, 0, instruction))

unimplemented_instruction(c, m, instruction) == Done(AdvancePc(c, 2), m)

SIMHALT == 20082    \* 0x4E72
NOP == 20081        \* 0x4E71
JMP == 20216        \* 0x4EF8

\* mutation: SIMHALT advances like NOP
miscellaneous_instruction_halt_advances(c, m, instruction, chk) ==
    IF instruction - (instruction % 8) = 3200 THEN
        LET dest_reg == instruction % 8
            ext == c.program_counter + 2
        IN  IF ~AllInMem(WordAddrs(ext)) THEN Panic(c, m, "index out of bounds")
            ELSE LET immediate == read_word(m, ext)
                     dest_value == c.data_registers[dest_reg]
                 IN  IF Overflowed(chk, SubOverflows(dest_value, immediate))
                     THEN Panic(c, m, "attempt to subtract with overflow")
                     ELSE Done(update_flags_for_result(
                                   AdvancePc(c, 4), WrappingSub(dest_value, immediate)), m)
    ELSE IF instruction = JMP THEN
        IF ~AllInMem(WordAddrs(c.program_counter + 2)) THEN Panic(c, m, "index out of bounds")
        ELSE Done(set_pc(c, read_word(m, c.program_counter + 2)), m)
    ELSE Done(AdvancePc(c, 2), m)

miscellaneous_instruction(c, m, instruction, chk) ==
    IF instruction - (instruction % 8) = 3200 THEN    \* (instruction & 0xFFF8) == 0x0C80
        LET dest_reg == instruction % 8
            ext == c.program_counter + 2
        IN  IF ~AllInMem(WordAddrs(ext)) THEN Panic(c, m, "index out of bounds")
            ELSE LET immediate == read_word(m, ext)
                     dest_value == c.data_registers[dest_reg]
                 IN  IF Overflowed(chk, SubOverflows(dest_value, immediate))
                     THEN Panic(c, m, "attempt to subtract with overflow")
                     ELSE Done(update_flags_for_result(
                                   AdvancePc(c, 4), WrappingSub(dest_value, immediate)), m)
    ELSE IF instruction = JMP THEN
        IF ~AllInMem(WordAddrs(c.program_counter + 2)) THEN Panic(c, m, "index out of bounds")
        ELSE Done(set_pc(c, read_word(m, c.program_counter + 2)), m)
    ELSE IF instruction = NOP THEN Done(AdvancePc(c, 2), m)
    ELSE IF instruction = SIMHALT THEN Done(c, m)
    ELSE Done(AdvancePc(c, 2), m)

or_instruction(c, m, instruction) == Done(AdvancePc(c, 2), m)

\* mutation: CMP stores the difference as SUB does
sub_cmp_instruction_cmp_stores(c, m, instruction, chk) ==
    LET dest_reg == (instruction \div 512) % 8
        source_value == c.data_registers[instruction % 8]
        dest_value == c.data_registers[dest_reg]
        result == WrappingSub(dest_value, source_value)
    IN  IF Overflowed(chk, SubOverflows(dest_value, source_value))
        THEN Panic(c, m, "attempt to subtract with overflow")
        ELSE Done(AdvancePc(update_flags_for_result(
                                SetD(c, dest_reg, result), result), 2), m)

sub_cmp_instruction(c, m, instruction, chk) ==
    LET opcode_high == (instruction \div 4096) % 16
        dest_reg == (instruction \div 512) % 8
        source_reg == instruction % 8
        source_value == c.data_registers[source_reg]
        dest_value == c.data_registers[dest_reg]
        result == WrappingSub(dest_value, source_value)
    IN  IF Overflowed(chk, SubOverflows(dest_value, source_value))
        THEN Panic(c, m, "attempt to subtract with overflow")
        ELSE IF opcode_high = 11
        THEN Done(AdvancePc(update_flags_for_result(c, result), 2), m)
        ELSE Done(AdvancePc(update_flags_for_result(
                                SetD(c, dest_reg, result), result), 2), m)

\* mutation: the source operand is zero-extended
and_instruction_unsigned(c, m, instruction) ==
    LET dest_mode == (instruction \div 64) % 8
        src_mode == (instruction \div 8) % 8
        src_reg == instruction % 8
        dest_reg == (instruction \div 512) % 8
        ext == c.program_counter + 2
    IN  IF dest_mode = 7 /\ src_mode = 7 /\ src_reg = 4 THEN
            IF ~AllInMem(WordAddrs(ext)) THEN Panic(c, m, "index out of bounds")
            ELSE LET result == Sext16(LowWord(c.data_registers[dest_reg]))
                                   * read_word(m, ext)
                 IN  Done(update_flags_for_result(
                              SetD(AdvancePc(c, 4), dest_reg, result), result), m)
        ELSE IF dest_mode = 7 /\ src_mode = 0 THEN
            LET result == LowWord(c.data_registers[src_reg])
                              * Sext16(LowWord(c.data_registers[dest_reg]))
            IN  Done(AdvancePc(update_flags_for_result(
                                   SetD(c, dest_reg, result), result), 2), m)
        ELSE Done(AdvancePc(c, 2), m)

and_instruction(c, m, instruction) ==
    LET dest_mode == (instruction \div 64) % 8
        src_mode == (instruction \div 8) % 8
        src_reg == instruction % 8
        dest_reg == (instruction \div 512) % 8
        ext == c.program_counter + 2
    IN  IF dest_mode = 7 /\ src_mode = 7 /\ src_reg = 4 THEN
            IF ~AllInMem(WordAddrs(ext)) THEN Panic(c, m, "index out of bounds")
            ELSE LET immediate == Sext16(read_word(m, ext))
                     dest_value == Sext16(LowWord(c.data_registers[dest_reg]))
                     result == dest_value * immediate
                 IN  Done(update_flags_for_result(
                              SetD(AdvancePc(c, 4), dest_reg, result), result), m)
        ELSE IF dest_mode = 7 /\ src_mode = 0 THEN
            LET source_value == Sext16(LowWord(c.data_registers[src_reg]))
                dest_value == Sext16(LowWord(c.data_registers[dest_reg]))
                result == source_value * dest_value
            IN  Done(AdvancePc(update_flags_for_result(
                                   SetD(c, dest_reg, result), result), 2), m)
        ELSE Done(AdvancePc(c, 2), m)

add_instruction(c, m, instruction, chk) ==
    LET dest_reg == (instruction \div 512) % 8
        source_reg == instruction % 8
        source_value == c.data_registers[source_reg]
        dest_value == c.data_registers[dest_reg]
        result == WrappingAdd(dest_value, source_value)
    IN  IF Overflowed(chk, AddOverflows(dest_value, source_value))
        THEN Panic(c, m, "attempt to add with overflow")
        ELSE Done(AdvancePc(update_flags_for_result(
                                SetD(c, dest_reg, result), result), 2), m)

shift_instruction(c, m, instruction) == Done(AdvancePc(c, 2), m)

\* one fetch-decode-execute cycle
execute_instruction(c, m, chk) ==
    IF ~AllInMem(WordAddrs(c.program_counter)) THEN Panic(c, m, "index out of bounds")
    ELSE
    LET instruction == read_word(m, c.program_counter)
        opcode == (instruction \div 4096) % 16
    IN  CASE opcode = 0 -> miscellaneous_instruction(c, m, instruction, chk)
          [] opcode \in 1..3 -> move_instruction(c, m, instruction)
          [] opcode = 4 -> miscellaneous_instruction(c, m, instruction, chk)
          [] opcode = 5 -> addq_subq_instruction(c, m, instruction, chk)
          [] opcode = 6 -> branch_instruction(c, m, instruction)
          [] opcode = 7 -> moveq_instruction(c, m, instruction)
          [] opcode = 8 -> or_instruction(c, m, instruction)
          [] opcode \in {9, 11} -> sub_cmp_instruction(c, m, instruction, chk)
          [] opcode = 10 -> unimplemented_instruction(c, m, instruction)
          [] opcode = 12 -> and_instruction(c, m, instruction)
          [] opcode = 13 -> add_instruction(c, m, instruction, chk)
          [] opcode = 14 -> shift_instruction(c, m, instruction)
          [] OTHER -> unimplemented_instruction(c, m, instruction)

-----------------------------------------------------------------------------
(* Text: the str and integer-parsing methods the assembler calls *)

None == <<>>
Some(v) == <<v>>
IsSome(o) == o # <<>>
Unwrap(o) == o[1]

\* the one value of a singleton set: Only({F(v) : v \in {e}}) is F(e) with e
\* evaluated once
Only(S) == CHOOSE v \in S : TRUE

CharAt(s, i) == SubSeq(s, i, i)
From(s, i) == Only({SubSeq(t, i, Len(t)) : t \in {s}})      \* &s[i-1..]

is_whitespace(ch) == ch \in {" ", "\t"}

is_ascii_digit(ch) == ch \in {"0", "1", "2", "3", "4", "5", "6", "7", "8", "9"}

starts_with(s, p) == Len(s) >= Len(p) /\ SubSeq(s, 1, Len(p)) = p

ends_with(s, p) == Len(s) >= Len(p) /\ SubSeq(s, Len(s) - Len(p) + 1, Len(s)) = p

contains(s, p) == \E i \in 1..(Len(s) - Len(p) + 1) : SubSeq(s, i, i + Len(p) - 1) = p

\* index of the first occurrence of the character, 0 when there is none
find(s, ch) ==
    IF \E i \in 1..Len(s) : CharAt(s, i) = ch
    THEN CHOOSE i \in 1..Len(s) : CharAt(s, i) = ch /\ \A j \in 1..(i - 1) : CharAt(s, j) # ch
    ELSE 0

\* the index of the first character that is no whitespace, Len(s) + 1 when all are
FirstBlack(s) ==
    IF \A i \in 1..Len(s) : is_whitespace(CharAt(s, i)) THEN Len(s) + 1
    ELSE CHOOSE i \in 1..Len(s) :
             ~is_whitespace(CharAt(s, i)) /\ \A j \in 1..(i - 1) : is_whitespace(CharAt(s, j))

\* the index of the last character that is no whitespace, 0 when all are
LastBlack(s) ==
    IF \A i \in 1..Len(s) : is_whitespace(CharAt(s, i)) THEN 0
    ELSE CHOOSE i \in 1..Len(s) :
             ~is_whitespace(CharAt(s, i)) /\ \A j \in (i + 1)..Len(s) : is_whitespace(CharAt(s, j))

trim_start(s) == Only({SubSeq(t, FirstBlack(t), Len(t)) : t \in {s}})

trim_end(s) == Only({SubSeq(t, 1, LastBlack(t)) : t \in {s}})

trim(s) == trim_end(trim_start(s))

UpperOf ==
    [ a |-> "A", b |-> "B", c |-> "C", d |-> "D", e |-> "E", f |-> "F", g |-> "G",
      h |-> "H", i |-> "I", j |-> "J", k |-> "K", l |-> "L", m |-> "M", n |-> "N",
      o |-> "O", p |-> "P", q |-> "Q", r |-> "R", s |-> "S", t |-> "T", u |-> "U",
      v |-> "V", w |-> "W", x |-> "X", y |-> "Y", z |-> "Z" ]

UpperChar(ch) == IF ch \in DOMAIN UpperOf THEN UpperOf[ch] ELSE ch

\* the characters lo..hi of s in upper case
RECURSIVE UpperRange(_, _, _)
UpperRange(s, lo, hi) ==
    IF lo > hi THEN ""
    ELSE IF lo = hi THEN UpperChar(CharAt(s, lo))
    ELSE UpperRange(s, lo, (lo + hi) \div 2) \o UpperRange(s, (lo + hi) \div 2 + 1, hi)

to_uppercase(s) == Only({UpperRange(t, 1, Len(t)) : t \in {s}})

\* s.split(sep) for a one-character separator: always at least one piece
RECURSIVE split(_, _)
split(s, sep) ==
    LET i == find(s, sep)
    IN  IF i = 0 THEN <<s>>
        ELSE <<SubSeq(s, 1, i - 1)>> \o Only({split(rest, sep) : rest \in {From(s, i + 1)}})

\* s.splitn(2, sep)
splitn2(s, sep) ==
    LET i == find(s, sep)
    IN  IF i = 0 THEN <<s>> ELSE <<SubSeq(s, 1, i - 1), From(s, i + 1)>>

\* the first whitespace of s at or after i, Len(s) + 1 when there is none
TokenEnd(s, i) ==
    IF \A j \in i..Len(s) : ~is_whitespace(CharAt(s, j)) THEN Len(s) + 1
    ELSE CHOOSE j \in i..Len(s) :
             is_whitespace(CharAt(s, j)) /\ \A k \in i..(j - 1) : ~is_whitespace(CharAt(s, k))

RECURSIVE split_whitespace(_)
split_whitespace(s) ==
    LET t == trim_start(s)
    IN  IF Len(t) = 0 THEN <<>>
        ELSE LET e == TokenEnd(t, 1)
             IN  <<SubSeq(t, 1, e - 1)>>
                 \o Only({split_whitespace(rest) : rest \in {From(t, e)}})

\* parts.join(sep)
RECURSIVE join(_, _)
join(parts, sep) ==
    IF Len(parts) = 0 THEN ""
    ELSE IF Len(parts) = 1 THEN parts[1]
    ELSE parts[1] \o sep \o join(Tail(parts), sep)

DigitOf ==
    [ x \in {"0", "1", "2", "3", "4", "5", "6", "7", "8", "9",
             "a", "b", "c", "d", "e", "f", "A", "B", "C", "D", "E", "F"} |->
        CASE x = "0" -> 0 [] x = "1" -> 1 [] x = "2" -> 2 [] x = "3" -> 3 [] x = "4" -> 4
          [] x = "5" -> 5 [] x = "6" -> 6 [] x = "7" -> 7 [] x = "8" -> 8 [] x = "9" -> 9
          [] x \in {"a", "A"} -> 10 [] x \in {"b", "B"} -> 11 [] x \in {"c", "C"} -> 12
          [] x \in {"d", "D"} -> 13 [] x \in {"e", "E"} -> 14 [] x \in {"f", "F"} -> 15 ]

\* char::to_digit(radix): -1 for a character that is no digit of the radix
to_digit(ch, radix) ==
    IF ch \in DOMAIN DigitOf /\ DigitOf[ch] < radix THEN DigitOf[ch] ELSE -1

\* one more digit on a magnitude held as <<high word, low word>>: None for an
\* invalid digit or a magnitude of 2^32 or more
PushDigit(acc, d, radix) ==
    IF ~IsSome(acc) \/ d < 0 THEN None
    ELSE IF Unwrap(acc)[1] * radix + ((Unwrap(acc)[2] * radix + d) \div 65536) > 65535 THEN None
    ELSE Some(<<Unwrap(acc)[1] * radix + ((Unwrap(acc)[2] * radix + d) \div 65536),
                (Unwrap(acc)[2] * radix + d) % 65536>>)

\* the digits lo..hi of s, in order, pushed on acc
RECURSIVE Digits(_, _, _, _, _)
Digits(s, radix, lo, hi, acc) ==
    IF lo > hi THEN acc
    ELSE IF lo = hi THEN PushDigit(acc, to_digit(CharAt(s, lo), radix), radix)
    ELSE Only({Digits(s, radix, (lo + hi) \div 2 + 1, hi, first) :
                  first \in {Digits(s, radix, lo, (lo + hi) \div 2, acc)}})

\* The magnitude of a digit string as <<high word, low word>>; None for an
\* invalid digit or a magnitude of 2^32 or more.
Magnitude(s, radix, high, low) ==
    Only({Digits(t, radix, 1, Len(t), Some(<<high, low>>)) : t \in {s}})

\* u32::from_str_radix / str::parse::<u32>: an optional '+', then digits
from_str_radix_u32(s, radix) ==
    LET digits == IF Len(s) > 1 /\ CharAt(s, 1) = "+" THEN From(s, 2) ELSE s
        m == IF Len(digits) = 0 THEN None ELSE Magnitude(digits, radix, 0, 0)
    IN  IF IsSome(m) THEN Some(LongOf(Unwrap(m)[1], Unwrap(m)[2])) ELSE None

from_str_radix_u16(s, radix) ==
    LET digits == IF Len(s) > 1 /\ CharAt(s, 1) = "+" THEN From(s, 2) ELSE s
        m == IF Len(digits) = 0 THEN None ELSE Magnitude(digits, radix, 0, 0)
    IN  IF IsSome(m) /\ Unwrap(m)[1] = 0 THEN Some(Unwrap(m)[2]) ELSE None

\* i8::from_str_radix / str::parse::<i8>: an optional '+' or '-', then digits
from_str_radix_i8(s, radix) ==
    LET signed == Len(s) > 1 /\ CharAt(s, 1) \in {"+", "-"}
        negative == signed /\ CharAt(s, 1) = "-"
        digits == IF signed THEN From(s, 2) ELSE s
        m == IF Len(digits) = 0 THEN None ELSE Magnitude(digits, radix, 0, 0)
    IN  IF ~IsSome(m) \/ Unwrap(m)[1] # 0 THEN None
        ELSE IF negative
        THEN (IF Unwrap(m)[2] <= 128 THEN Some(-Unwrap(m)[2]) ELSE None)
        ELSE (IF Unwrap(m)[2] <= 127 THEN Some(Unwrap(m)[2]) ELSE None)

-----------------------------------------------------------------------------
(* Assembler (assembler.rs) *)

NewAssembler == [labels |-> <<>>, instructions |-> <<>>]

\* HashMap::insert / HashMap::get on the label table
Insert(labels, name, address) ==
    [x \in DOMAIN labels \cup {name} |-> IF x = name THEN address ELSE labels[x]]

Get(labels, name) == IF name \in DOMAIN labels THEN Some(labels[name]) ELSE None

\* $hex, 0xhex or decimal, as u32
ParseU32Literal(str) ==
    IF starts_with(str, "$") THEN from_str_radix_u32(From(str, 2), 16)
    ELSE IF starts_with(str, "0x") THEN from_str_radix_u32(From(str, 3), 16)
    ELSE from_str_radix_u32(str, 10)

parse_org_directive(line) ==
    LET parts == split_whitespace(line)
    IN  IF Len(parts) < 2 THEN None ELSE ParseU32Literal(parts[2])

\* mutation: every data directive takes the default size of a word
DataSize_default(line_upper) == 2

DataSize(line_upper) ==
    IF contains(line_upper, "DC.L") \/ contains(line_upper, "DS.L") THEN 4
    ELSE IF contains(line_upper, "DC.W") \/ contains(line_upper, "DS.W") THEN 2
    ELSE IF contains(line_upper, "DC.B") \/ contains(line_upper, "DS.B") THEN 1
    ELSE 2

DataValue(line_upper, parts) ==
    IF contains(line_upper, "DC.") /\ Len(parts) >= 2
    THEN ParseU32Literal(trim(parts[2])) ELSE None

\* "LABEL: DC.L v" or "LABEL DC.L v" or "DC.L v": the label and the directive
DataLabelled(line, words, labelled) ==
    IF contains(line, ":")
    THEN [label |-> trim(splitn2(line, ":")[1]), directive_str |-> trim(splitn2(line, ":")[2])]
    ELSE IF labelled THEN [label |-> words[1], directive_str |-> join(Tail(words), " ")]
    ELSE [label |-> "", directive_str |-> line]

DataSplit(line, words, first_word) ==
    DataLabelled(line, words, Len(words) >= 2 /\ ~starts_with(first_word, "DC")
                                              /\ ~starts_with(first_word, "DS"))

DataDirective(line_upper, label, parts) ==
    [label |-> label, size |-> DataSize(line_upper), value |-> DataValue(line_upper, parts)]

DataParts(line_upper, d) ==
    Only({DataDirective(line_upper, d.label, parts) :
             parts \in {split_whitespace(d.directive_str)}})

DataWords(line, words) ==
    Only({DataParts(line_upper, d) :
             line_upper \in {to_uppercase(line)},
             d \in {DataSplit(line, words, to_uppercase(words[1]))}})

parse_data_directive_with_value(line) ==
    Only({DataWords(line, words) : words \in {split_whitespace(line)}})

\* the text after '#': $hex, 0xhex or decimal
ImmediateDigits(value_str) ==
    IF starts_with(value_str, "0x") THEN From(value_str, 3) ELSE From(value_str, 2)

IsHex(value_str) == starts_with(value_str, "0x") \/ starts_with(value_str, "$")

parse_immediate(operand) ==
    IF ~starts_with(operand, "#") THEN None
    ELSE LET value_str == From(operand, 2)
         IN  IF IsHex(value_str) THEN from_str_radix_i8(ImmediateDigits(value_str), 16)
             ELSE from_str_radix_i8(value_str, 10)

parse_immediate_u16(operand) ==
    IF ~starts_with(operand, "#") THEN None
    ELSE LET value_str == From(operand, 2)
         IN  IF IsHex(value_str) THEN from_str_radix_u16(ImmediateDigits(value_str), 16)
             ELSE from_str_radix_u16(value_str, 10)

\* the register number of a two-character operand <letter><0..7>
RegisterNumber(operand, letter) ==
    IF Len(operand) = 2 /\ starts_with(operand, letter)
       /\ is_ascii_digit(CharAt(operand, 2)) /\ to_digit(CharAt(operand, 2), 10) <= 7
    THEN Some(to_digit(CharAt(operand, 2), 10)) ELSE None

parse_data_register(operand) == RegisterNumber(operand, "D")

parse_address_register(operand) == RegisterNumber(operand, "A")

parse_indirect_register(operand) ==
    IF starts_with(operand, "(") /\ ends_with(operand, ")") /\ Len(operand) >= 2
    THEN parse_address_register(SubSeq(operand, 2, Len(operand) - 1)) ELSE None

parse_immediate_address(labels, operand) ==
    IF starts_with(operand, "$") THEN from_str_radix_u16(From(operand, 2), 16)
    ELSE IF starts_with(operand, "0x") THEN from_str_radix_u16(From(operand, 3), 16)
    ELSE IF \A i \in 1..Len(operand) : is_ascii_digit(CharAt(operand, i))
    THEN from_str_radix_u16(operand, 10)
    ELSE IF IsSome(Get(labels, operand)) THEN Some(LowWord(Unwrap(Get(labels, operand))))
    ELSE None

\* mutation: the displacement is taken from the branch address, not from
\* the address after the branch word
parse_branch_displacement_from_branch(labels, operand, current_address) ==
    LET target == Get(labels, operand)
        displacement == Unwrap(target) - current_address
    IN  IF IsSome(target) /\ -128 <= displacement /\ displacement <= 127
        THEN Some(displacement)
        ELSE IF starts_with(operand, "+") \/ starts_with(operand, "-")
        THEN from_str_radix_i8(operand, 10)
        ELSE None

parse_branch_displacement(labels, operand, current_address) ==
    LET target == Get(labels, operand)
        displacement == Unwrap(target) - current_address - 2
    IN  IF IsSome(target) /\ -128 <= displacement /\ displacement <= 127
        THEN Some(displacement)
        ELSE IF starts_with(operand, "+") \/ starts_with(operand, "-")
        THEN from_str_radix_i8(operand, 10)
        ELSE None

\* value as u16 & 0xFF of an i8
LowByte(v) == v % 256

\* the operands after the mnemonic: joined, split at ',', trimmed, empty ones dropped
Trimmed(pieces) ==
    SelectSeq([i \in 1..Len(pieces) |-> trim(pieces[i])], LAMBDA o : o # "")

Operands(parts) ==
    IF Len(parts) > 1
    THEN Only({Trimmed(pieces) : pieces \in {split(join(Tail(parts), " "), ",")}})
    ELSE <<>>

\* an operand that is no data register, address register or indirect form
Plain(o) == ~starts_with(o, "D") /\ ~starts_with(o, "A") /\ ~starts_with(o, "(")

\* mutation: an immediate source takes an extension word under any mnemonic
InstructionSize_any_mnemonic(mnemonic, long, operands) ==
    IF Len(operands) >= 2 /\ starts_with(operands[1], "#") THEN 4 ELSE 2

InstructionSize(mnemonic, long, operands) ==
    IF Len(operands) >= 2 THEN
        IF mnemonic \in {"MOVE", "MOVEA"} /\ long THEN
            IF starts_with(operands[1], "#") \/ Plain(operands[1]) THEN 4
            ELSE IF Plain(operands[Len(operands)]) THEN 4
            ELSE 2
        ELSE IF mnemonic = "CMP" /\ long /\ starts_with(operands[1], "#") THEN 4
        ELSE IF mnemonic = "MULS" /\ starts_with(operands[1], "#") THEN 4
        ELSE 2
    ELSE 2

NewInstruction(address, mnemonic, long, operands) ==
    [address |-> address, mnemonic |-> mnemonic, operands |-> operands,
     machine_code |-> None, extension_word |-> None,
     size |-> InstructionSize(mnemonic, long, operands)]

InstructionOf(mnemonic_parts, operands, address) ==
    Only({NewInstruction(address, mnemonic,
                         Len(mnemonic_parts) >= 2 /\ mnemonic_parts[2] = "L", operands) :
             mnemonic \in {to_uppercase(mnemonic_parts[1])}})

InstructionFrom(parts, address) ==
    IF Len(parts) = 0
    THEN [address |-> address, mnemonic |-> "", operands |-> <<>>,
          machine_code |-> None, extension_word |-> None, size |-> 2]
    ELSE Only({InstructionOf(mnemonic_parts, operands, address) :
                  mnemonic_parts \in {split(parts[1], ".")}, operands \in {Operands(parts)}})

parse_instruction(line, address) ==
    Only({InstructionFrom(parts, address) : parts \in {split_whitespace(line)}})

\* Option<u16>::map(|c| (c, None))
NoExt(o) == IF IsSome(o) THEN Some(<<Unwrap(o), None>>) ELSE None

encode_moveq(labels, inst) ==
    IF Len(inst.operands) # 2 THEN None
    ELSE LET immediate == parse_immediate(inst.operands[1])
             register == parse_data_register(inst.operands[2])
         IN  IF ~IsSome(immediate) \/ ~IsSome(register) THEN None
             ELSE Some(28672 + Unwrap(register) * 512 + LowByte(Unwrap(immediate)))

encode_move_with_ext(labels, inst) ==
    IF Len(inst.operands) # 2 THEN None
    ELSE
    LET source == inst.operands[1]
        dest == inst.operands[2]
        src_d == parse_data_register(source)
        dst_d == parse_data_register(dest)
        src_ind == parse_indirect_register(source)
        dst_ind == parse_indirect_register(dest)
        imm == parse_immediate_u16(source)
    IN  IF starts_with(source, "#") /\ IsSome(dst_d) /\ IsSome(imm)
        THEN Some(<<8700 + Unwrap(dst_d) * 512, Some(Unwrap(imm))>>)          \* 0x21FC
        ELSE IF IsSome(src_ind) /\ IsSome(dst_d)
        THEN Some(<<8208 + Unwrap(dst_d) * 512 + Unwrap(src_ind), None>>)     \* 0x2010
        ELSE IF IsSome(src_d) /\ IsSome(dst_ind)
        THEN Some(<<8320 + Unwrap(dst_ind) * 512 + Unwrap(src_d), None>>)     \* 0x2080
        ELSE IF IsSome(src_d) /\ IsSome(dst_d)
        THEN Some(<<12288 + Unwrap(dst_d) * 512 + Unwrap(src_d), None>>)      \* 0x3000
        ELSE IF IsSome(dst_d) /\ IsSome(Get(labels, source))
        THEN Some(<<8312 + Unwrap(dst_d) * 512,                               \* 0x2078
                    Some(LowWord(Unwrap(Get(labels, source))))>>)
        ELSE IF IsSome(src_d) /\ IsSome(Get(labels, dest))
        THEN Some(<<9152 + Unwrap(src_d),                                     \* 0x23C0
                    Some(LowWord(Unwrap(Get(labels, dest))))>>)
        ELSE None

encode_movea_with_ext(labels, inst) ==
    IF Len(inst.operands) # 2 THEN None
    ELSE
    LET source == inst.operands[1]
        dest == inst.operands[2]
        dest_areg == parse_address_register(dest)
        label_addr == Get(labels, From(source, 2))
    IN  IF starts_with(source, "#") /\ IsSome(dest_areg) /\ IsSome(label_addr)
        THEN Some(<<8316 + Unwrap(dest_areg) * 512,                           \* 0x207C
                    Some(LowWord(Unwrap(label_addr)))>>)
        ELSE None

encode_muls_with_ext(labels, inst) ==
    IF Len(inst.operands) # 2 THEN None
    ELSE
    LET source == inst.operands[1]
        dest == inst.operands[2]
        dest_reg == parse_data_register(dest)
        imm_value == parse_immediate_u16(source)
        src_reg == parse_data_register(source)
    IN  IF ~IsSome(dest_reg) THEN None
        ELSE IF starts_with(source, "#")
        THEN (IF IsSome(imm_value)
              THEN Some(<<49660 + Unwrap(dest_reg) * 512, Some(Unwrap(imm_value))>>)  \* 0xC1FC
              ELSE None)
        ELSE IF IsSome(src_reg)
        THEN Some(<<49600 + Unwrap(dest_reg) * 512 + Unwrap(src_reg), None>>)         \* 0xC1C0
        ELSE None

\* mutation: a label out of range is encoded with its displacement truncated
encode_branch_truncating(labels, inst, condition) ==
    IF Len(inst.operands) = 0 THEN None
    ELSE LET target == Get(labels, inst.operands[1])
             displacement ==
                 parse_branch_displacement(labels, inst.operands[1], inst.address)
         IN  IF IsSome(displacement)
             THEN Some(24576 + condition * 256 + LowByte(Unwrap(displacement)))
             ELSE IF IsSome(target)
             THEN Some(24576 + condition * 256 + LowByte(Unwrap(target) - inst.address - 2))
             ELSE None

encode_branch(labels, inst, condition) ==
    IF Len(inst.operands) = 0 THEN None
    ELSE LET displacement ==
                 parse_branch_displacement(labels, inst.operands[1], inst.address)
         IN  IF ~IsSome(displacement) THEN None
             ELSE Some(24576 + condition * 256 + LowByte(Unwrap(displacement)))   \* 0x6000

\* the register-to-register forms ADD, SUB and CMP share: base | dest << 9 | source
EncodeTwoRegisters(inst, base) ==
    LET source_reg == parse_data_register(inst.operands[1])
        dest_reg == parse_data_register(inst.operands[2])
    IN  IF ~IsSome(source_reg) \/ ~IsSome(dest_reg) THEN None
        ELSE Some(base + Unwrap(dest_reg) * 512 + Unwrap(source_reg))

encode_add(labels, inst) ==
    IF Len(inst.operands) # 2 THEN None ELSE EncodeTwoRegisters(inst, 53312)    \* 0xD040

encode_sub(labels, inst) ==
    IF Len(inst.operands) # 2 THEN None ELSE EncodeTwoRegisters(inst, 36928)    \* 0x9040

encode_cmp_with_ext(labels, inst) ==
    IF Len(inst.operands) # 2 THEN None
    ELSE IF starts_with(inst.operands[1], "#") THEN
        LET immediate == parse_immediate_u16(inst.operands[1])
            dest_reg == parse_data_register(inst.operands[2])
        IN  IF ~IsSome(immediate) \/ ~IsSome(dest_reg) THEN None
            ELSE Some(<<3200 + Unwrap(dest_reg), Some(Unwrap(immediate))>>)     \* 0x0C80
    ELSE NoExt(EncodeTwoRegisters(inst, 45120))                                 \* 0xB040

encode_jump(labels, inst) ==
    IF Len(inst.operands) # 1 THEN None
    ELSE IF IsSome(parse_immediate_address(labels, inst.operands[1])) THEN Some(JMP)
    ELSE None

encode_tst(labels, inst) ==
    IF Len(inst.operands) # 1 THEN None
    ELSE LET reg == parse_data_register(inst.operands[1])
         IN  IF IsSome(reg) THEN Some(19072 + Unwrap(reg)) ELSE None            \* 0x4A80

\* SUBQ and ASL share: base | (imm == 8 ? 0 : imm & 7) << 9 | reg
EncodeQuick(inst, base) ==
    LET immediate == parse_immediate(inst.operands[1])
        reg == parse_data_register(inst.operands[2])
        data == IF Unwrap(immediate) = 8 THEN 0 ELSE Unwrap(immediate) % 8
    IN  IF ~IsSome(immediate) \/ ~IsSome(reg) THEN None
        ELSE Some(base + data * 512 + Unwrap(reg))

encode_subq(labels, inst) ==
    IF Len(inst.operands) # 2 THEN None ELSE EncodeQuick(inst, 20864)           \* 0x5180

encode_asl(labels, inst) ==
    IF Len(inst.operands) # 2 THEN None ELSE EncodeQuick(inst, 57728)           \* 0xE180

encode_dbra(labels, inst) ==
    IF Len(inst.operands) # 2 THEN None
    ELSE LET reg == parse_data_register(inst.operands[1])
             displacement ==
                 parse_branch_displacement(labels, inst.operands[2], inst.address)
         IN  IF ~IsSome(reg) \/ ~IsSome(displacement) THEN None
             ELSE Some(20936 + Unwrap(reg))                                     \* 0x51C8

\* the condition nibble of each branch mnemonic
BranchCondition ==
    [ BRA |-> 0, BEQ |-> 7, BNE |-> 6, BCC |-> 4, BCS |-> 5, BPL |-> 8,
      BMI |-> 9, BGE |-> 12, BLT |-> 13, BGT |-> 14, BLE |-> 15 ]

encode_instruction_with_ext(labels, inst) ==
    LET m == inst.mnemonic
    IN  CASE m = "MOVEQ" -> NoExt(encode_moveq(labels, inst))
          [] m = "MOVE" -> encode_move_with_ext(labels, inst)
          [] m = "MOVEA" -> encode_movea_with_ext(labels, inst)
          [] m = "MULS" -> encode_muls_with_ext(labels, inst)
          [] m = "TST" -> NoExt(encode_tst(labels, inst))
          [] m = "SUBQ" -> NoExt(encode_subq(labels, inst))
          [] m = "ASL" -> NoExt(encode_asl(labels, inst))
          [] m = "DBRA" -> NoExt(encode_dbra(labels, inst))
          [] m \in DOMAIN BranchCondition ->
                 NoExt(encode_branch(labels, inst, BranchCondition[m]))
          [] m = "NOP" -> Some(<<NOP, None>>)
          [] m = "SIMHALT" -> Some(<<SIMHALT, None>>)
          [] m = "ADD" -> NoExt(encode_add(labels, inst))
          [] m = "SUB" -> NoExt(encode_sub(labels, inst))
          [] m = "CMP" -> encode_cmp_with_ext(labels, inst)
          [] m \in {"JMP", "JUMP"} -> NoExt(encode_jump(labels, inst))
          [] OTHER -> None

\* Pass 1 goes on with the next line
Continue(next) == [st |-> next, stop |-> FALSE]

OrgLine(org, st) ==
    Continue(IF IsSome(org) THEN [st EXCEPT !.current_address = Unwrap(org)] ELSE st)

DataLine(data, labels1, st) ==
    Continue([st EXCEPT !.labels = IF data.label # ""
                                   THEN Insert(labels1, data.label, st.current_address)
                                   ELSE labels1,
                        !.data_values = IF IsSome(data.value)
                                        THEN Append(@, <<st.current_address, Unwrap(data.value)>>)
                                        ELSE @,
                        !.current_address = @ + data.size])

InstructionLine(instruction, labels1, st) ==
    Continue([st EXCEPT !.labels = labels1,
                        !.instructions = Append(@, instruction),
                        !.current_address = @ + instruction.size])

\* the line after its label, if any, has been taken off
Statement(has_label, rest, rest_upper, labels1, st) ==
    IF has_label /\ rest = "" THEN Continue([st EXCEPT !.labels = labels1])
    ELSE IF contains(rest_upper, "DC.") \/ contains(rest_upper, "DS.")
    THEN Only({DataLine(data, labels1, st) : data \in {parse_data_directive_with_value(rest)}})
    ELSE Only({InstructionLine(instruction, labels1, st) :
                  instruction \in {parse_instruction(rest, st.current_address)}})

Labelled(rest, labels1, st) ==
    Only({Statement(TRUE, rest, rest_upper, labels1, st) : rest_upper \in {to_uppercase(rest)}})

\* mutation: a name that is already bound keeps its first address
LabelLine_keeps_first(colon, st) ==
    Only({Labelled(rest, labels1, st) :
             rest \in {trim(colon[2])},
             labels1 \in {IF IsSome(Get(st.labels, trim(colon[1]))) THEN st.labels
                          ELSE Insert(st.labels, trim(colon[1]), st.current_address)}})

LabelLine(colon, st) ==
    Only({Labelled(rest, labels1, st) :
             rest \in {trim(colon[2])},
             labels1 \in {Insert(st.labels, trim(colon[1]), st.current_address)}})

TrimmedLine(line, upper, st) ==
    IF line = "" \/ starts_with(line, ";") THEN Continue(st)
    ELSE IF starts_with(upper, "END") THEN [st |-> st, stop |-> TRUE]
    ELSE IF starts_with(upper, "ORG")
    THEN Only({OrgLine(org, st) : org \in {parse_org_directive(line)}})
    ELSE IF contains(line, ":")
    THEN Only({LabelLine(colon, st) : colon \in {splitn2(line, ":")}})
    ELSE Statement(FALSE, line, upper, st.labels, st)

UpperLine(line, st) == Only({TrimmedLine(line, upper, st) : upper \in {to_uppercase(line)}})

\* one line of pass 1: the state after it, and whether the line ends the pass
FirstPassLine(text, st) == Only({UpperLine(line, st) : line \in {trim(text)}})

\* Pass 1 over the lines lo..hi, in order, from the state r: labels, instruction
\* records, DC values and addresses; nothing is read after the line that stops it
RECURSIVE PassLines(_, _, _, _)
PassLines(src, lo, hi, r) ==
    IF r.stop \/ lo > hi THEN r
    ELSE IF lo = hi THEN FirstPassLine(src[lo], r.st)
    ELSE Only({PassLines(src, (lo + hi) \div 2 + 1, hi, first) :
                  first \in {PassLines(src, lo, (lo + hi) \div 2, r)}})

FirstPass(src, r) == PassLines(src, 1, Len(src), r).st

\* Pass 2: the words of the DC values, then of each instruction that encodes
RECURSIVE EmitData(_, _, _)
EmitData(data_values, lo, hi) ==
    IF lo > hi THEN <<>>
    ELSE IF lo = hi
    THEN <<<<data_values[lo][1], HighWord(data_values[lo][2])>>,
           <<data_values[lo][1] + 2, LowWord(data_values[lo][2])>>>>
    ELSE EmitData(data_values, lo, (lo + hi) \div 2)
         \o EmitData(data_values, (lo + hi) \div 2 + 1, hi)

\* machine_code.push((address, code)), and the extension word after it
Emitted(inst, e) ==
    IF ~IsSome(e) THEN <<>>
    ELSE IF IsSome(Unwrap(e)[2])
    THEN <<<<inst.address, Unwrap(e)[1]>>, <<inst.address + 2, Unwrap(Unwrap(e)[2])>>>>
    ELSE <<<<inst.address, Unwrap(e)[1]>>>>

EmitInstruction(labels, inst) ==
    Only({Emitted(inst, e) : e \in {encode_instruction_with_ext(labels, inst)}})

RECURSIVE EmitInstructions(_, _, _, _)
EmitInstructions(labels, instructions, lo, hi) ==
    IF lo > hi THEN <<>>
    ELSE IF lo = hi THEN EmitInstruction(labels, instructions[lo])
    ELSE EmitInstructions(labels, instructions, lo, (lo + hi) \div 2)
         \o EmitInstructions(labels, instructions, (lo + hi) \div 2 + 1, hi)

\* mutation: the label table and the instruction list are kept
clear_nothing(a) == a

\* self.instructions.clear(); self.labels.clear()
clear(a) == [a EXCEPT !.instructions = <<>>, !.labels = <<>>]

\* mutation: the instruction words are emitted before the data words
SecondPass_instructions_first(st) ==
    [asm |-> [labels |-> st.labels, instructions |-> st.instructions],
     machine_code |-> EmitInstructions(st.labels, st.instructions, 1, Len(st.instructions))
                      \o EmitData(st.data_values, 1, Len(st.data_values))]

\* assemble(lines): the assembler it leaves and the stream it returns
SecondPass(st) ==
    [asm |-> [labels |-> st.labels, instructions |-> st.instructions],
     machine_code |-> EmitData(st.data_values, 1, Len(st.data_values))
                      \o EmitInstructions(st.labels, st.instructions, 1, Len(st.instructions))]

Cleared(a) ==
    Continue([labels |-> a.labels, instructions |-> a.instructions,
              data_values |-> <<>>, current_address |-> 0])

assemble(a, src) == Only({SecondPass(st) : st \in {FirstPass(src, Cleared(clear(a)))}})

-----------------------------------------------------------------------------
(* The driver: tests/integration_test.rs and the unit tests of lib.rs *)

\* decimal text of an integer, as format!("{}", n) writes it
RECURSIVE DecDigits(_)
DecDigits(n) ==
    LET d == CharAt("0123456789", (n % 10) + 1)
    IN  IF n < 10 THEN d ELSE DecDigits(n \div 10) \o d

ToDec(n) == IF n < 0 THEN "-" \o DecDigits(-n) ELSE DecDigits(n)

\* a literal displacement operand: +N or -N
ToSigned(n) == IF n < 0 THEN ToDec(n) ELSE "+" \o DecDigits(n)

\* for (address, word) in &machine_code { memory.write_word(*address, *word) }
RECURSIVE LoadRange(_, _, _, _)
LoadRange(m, machine_code, lo, hi) ==
    IF lo > hi THEN m
    ELSE IF lo = hi THEN write_word(m, machine_code[lo][1], machine_code[lo][2])
    ELSE Only({LoadRange(first, machine_code, (lo + hi) \div 2 + 1, hi) :
                  first \in {LoadRange(m, machine_code, lo, (lo + hi) \div 2)}})

load(m, machine_code) == LoadRange(m, machine_code, 1, Len(machine_code))

\* the first entry at or above $1000, $1000 when there is none
first_instruction_addr(machine_code) ==
    LET at == {i \in 1..Len(machine_code) : machine_code[i][1] >= 4096}
    IN  IF at = {} THEN 4096
        ELSE machine_code[CHOOSE i \in at : \A j \in at : i <= j][1]

NoCall == [op |-> "none"]
NoStep == [cpu |-> NewCPU, mem |-> NewMemory, instruction |-> 0]

\* pc_before == pc_after for the last step
Stalled == phase = "running" /\ steps > 0 /\ fault = "none"
           /\ before.cpu.program_counter = cpu.program_counter

Fetched(c, m) ==
    IF AllInMem(WordAddrs(c.program_counter)) THEN read_word(m, c.program_counter) ELSE 0

\* let machine_code = assembler.assemble(&lines)
Assemble ==
    /\ phase = "source"
    /\ LET r == assemble(asm, lines)
       IN  /\ asm' = r.asm
           /\ code' = r.machine_code
    /\ phase' = "assembled"
    /\ last' = [op |-> "assemble", lines |-> lines, previous |-> last]
    /\ UNCHANGED <<mem, cpu, lines, checked, fault, before, steps, input>>

\* assemble_and_load after the assemble call: fresh Memory and CPU, every
\* entry written with write_word, set_pc to the entry point
Load ==
    /\ phase = "assembled"
    /\ input.run
    /\ IF \A i \in 1..Len(code) : AllInMem(WordAddrs(code[i][1]))
       THEN /\ mem' = load(NewMemory, code)
            /\ cpu' = set_pc(NewCPU, IF IsSome(input.entry) THEN Unwrap(input.entry)
                                     ELSE first_instruction_addr(code))
            /\ fault' = "none"
       ELSE /\ fault' = "index out of bounds"
            /\ UNCHANGED <<mem, cpu>>
    /\ phase' = "running"
    /\ steps' = 0
    /\ last' = [op |-> "load"]
    /\ UNCHANGED <<asm, lines, code, checked, before, input>>

\* one iteration of run_until_halt (input.poll) or of CPU::run (otherwise):
\* execute_instruction, then the driver's halt and step-limit checks
Step ==
    /\ phase = "running"
    /\ fault = "none"
    /\ steps < input.max_steps
    /\ ~(input.poll /\ Stalled)
    /\ LET r == execute_instruction(cpu, mem, checked)
           n == steps + 1
       IN  /\ cpu' = r.cpu
           /\ mem' = r.mem
           /\ steps' = n
           /\ fault' = IF r.fault # "none" THEN r.fault
                       ELSE IF input.poll /\ n >= input.max_steps
                               /\ r.cpu.program_counter # cpu.program_counter
                       THEN "Program did not halt"
                       ELSE "none"
    /\ before' = [cpu |-> cpu, mem |-> mem, instruction |-> Fetched(cpu, mem)]
    /\ last' = [op |-> "execute_instruction"]
    /\ UNCHANGED <<asm, lines, code, checked, phase, input>>

\* the state a run starts in: a source text chosen, nothing assembled yet
Source(src, in) ==
    /\ mem = NewMemory
    /\ cpu = NewCPU
    /\ asm = NewAssembler
    /\ lines = src
    /\ code = <<>>
    /\ fault = "none"
    /\ before = NoStep
    /\ last = NoCall
    /\ phase = "source"
    /\ steps = 0
    /\ input = in

RunNext == Assemble \/ Load \/ Step

-----------------------------------------------------------------------------
(* Memory called directly, as test_memory_operations does *)

\* what a write call leaves when an index is outside the vector: the bytes
\* stored before the panic stay stored
WriteWordCall(m, a, value) ==
    IF ~InMem(a) THEN [mem |-> m, fault |-> "index out of bounds"]
    ELSE IF ~InMem(a + 1)
    THEN [mem |-> MemPut(m, a, value \div 256), fault |-> "index out of bounds"]
    ELSE [mem |-> write_word(m, a, value), fault |-> "none"]

WriteLongCall(m, a, value) ==
    LET high == WriteWordCall(m, a, HighWord(value))
    IN  IF high.fault # "none" THEN high
        ELSE IF ~AllInMem(WordAddrs(a + 2))
        THEN WriteWordCall(high.mem, a + 2, LowWord(value))
        ELSE [mem |-> write_long(m, a, value), fault |-> "none"]

MaxMemOps == 2

MemAddrs == {0, 1, 2, 4096, MemSize - 4, MemSize - 2}
WordValues == {0, 1, 4660, 43981, 65535}                  \* 0x1234, 0xABCD, 0xFFFF
LongValues == {0, 305419896, -1, MinI32, 16711935}        \* 0x12345678, 0x00FF00FF

MemWriteWord ==
    /\ phase = "memory" /\ fault = "none" /\ steps < MaxMemOps
    /\ \E a \in MemAddrs, w \in WordValues :
          /\ mem' = WriteWordCall(mem, a, w).mem
          /\ fault' = WriteWordCall(mem, a, w).fault
          /\ last' = [op |-> "write_word", address |-> a, value |-> w]
    /\ steps' = steps + 1
    /\ UNCHANGED <<cpu, asm, lines, code, checked, before, phase, input>>

MemWriteLong ==
    /\ phase = "memory" /\ fault = "none" /\ steps < MaxMemOps
    /\ \E a \in MemAddrs, v \in LongValues :
          /\ mem' = WriteLongCall(mem, a, v).mem
          /\ fault' = WriteLongCall(mem, a, v).fault
          /\ last' = [op |-> "write_long", address |-> a, value |-> v]
    /\ steps' = steps + 1
    /\ UNCHANGED <<cpu, asm, lines, code, checked, before, phase, input>>

InitMem ==
    /\ mem = NewMemory
    /\ cpu = NewCPU
    /\ asm = NewAssembler
    /\ lines = <<>>
    /\ code = <<>>
    /\ checked \in BOOLEAN
    /\ fault = "none"
    /\ before = NoStep
    /\ last = NoCall
    /\ phase = "memory"
    /\ steps = 0
    /\ input = [run |-> FALSE]

NextMem == MemWriteWord \/ MemWriteLong

SpecMem == InitMem /\ [][NextMem]_vars

\* C1: after write_long(a, v) that returns, read_long(a) = v, read_word(a) is
\* the high word of v and read_word(a+2) its low word; after write_word(a, w)
\* that returns, read_word(a) = w, read_byte(a) = w >> 8 and
\* read_byte(a+1) = w & 0xFF, at aligned and unaligned addresses alike.
C1_MemoryRoundTrip ==
    /\ (last.op = "write_long" /\ fault = "none") =>
          /\ read_long(mem, last.address) = last.value
          /\ read_word(mem, last.address) = HighWord(last.value)
          /\ read_word(mem, last.address + 2) = LowWord(last.value)
    /\ (last.op = "write_word" /\ fault = "none") =>
          /\ read_word(mem, last.address) = last.value
          /\ read_byte(mem, last.address) = last.value \div 256
          /\ read_byte(mem, last.address + 1) = last.value % 256

\* an unaligned long written over an earlier write, its two words differing
C1_Witness ==
    /\ last.op = "write_long" /\ fault = "none" /\ steps = 2
    /\ last.address = 1
    /\ last.value = 305419896
    /\ read_word(mem, 1) = 4660 /\ read_word(mem, 3) = 22136

-----------------------------------------------------------------------------
(* The CPU stepped over words written straight into memory, as                *)
(* test_cpu_moveq_execution does: CPU::new, write_word, set_pc,               *)
(* execute_instruction.                                                       *)

MaxCpuSteps == 4

CpuBases == {0, 4096}

\* one or more words of every opcode group, the forms the handlers recognise
\* and forms they do not
ProgWords ==
    { 0, 3200, 4096, 8316, 8700, 8720, 8832, 12800,       \* 0x0000 0x0C80 0x1000 0x207C 0x21FC 0x2210 0x2280 0x3200
      8824, 13312, 19072, 24826,                          \* 0x2278 0x3400 0x4A80 0x60FA
      NOP, SIMHALT, JMP, 21120, 21377,                    \* 0x5280 0x5381
      24578, 24830, 25604, 25860, 26366, 26622, 26628,    \* 0x6002 0x60FE 0x6404 0x6504 0x66FE 0x67FE 0x6804
      28927, 29184, 32768, 36929, 40960, 45121,           \* 0x70FF 0x7200 0x8000 0x9041 0xA000 0xB041
      49601, 49660, 53313, 57344, 61440 }                 \* 0xC1C1 0xC1FC 0xD041 0xE000 0xF000

TailWords == {0, 4096, 8320, SIMHALT}    \* 0x2080

Init ==
    /\ \E base \in CpuBases, w1 \in ProgWords, w2 \in ProgWords, w3 \in TailWords :
          /\ mem = write_word(write_word(write_word(NewMemory, base, w1), base + 2, w2),
                              base + 4, w3)
          /\ cpu = set_pc(NewCPU, base)
          /\ input = [run |-> TRUE, poll |-> FALSE, max_steps |-> MaxCpuSteps,
                      entry |-> Some(base), kind |-> "words"]
    /\ asm = NewAssembler
    /\ lines = <<>>
    /\ code = <<>>
    /\ checked \in BOOLEAN
    /\ fault = "none"
    /\ before = NoStep
    /\ last = NoCall
    /\ phase = "running"
    /\ steps = 0

Next == Step

Spec == Init /\ [][Next]_vars

\* the last call of execute_instruction returned
Stepped == phase = "running" /\ steps > 0 /\ fault = "none"

PcUnchanged == cpu.program_counter = before.cpu.program_counter

\* a branch word whose displacement byte is 0xFE (-2) and whose condition
\* holds in the flags it is executed with
TakenBranchToSelf ==
    /\ (before.instruction \div 4096) % 16 = 6
    /\ before.instruction % 256 = 254
    /\ check_condition(before.cpu, (before.instruction \div 256) % 16)

\* JMP whose target word, at PC+2, is the PC itself
JumpToSelf ==
    /\ before.instruction = JMP
    /\ read_word(before.mem, before.cpu.program_counter + 2) = before.cpu.program_counter

\* C3 as stated: a step leaves the PC unchanged iff the fetched word is SIMHALT.
C3_StallOnlyAtSimhalt ==
    Stepped => (PcUnchanged <=> before.instruction = SIMHALT)

\* C3 amended: a step that returns leaves the PC unchanged iff the fetched word
\* is SIMHALT, a taken branch with displacement -2, or JMP whose target word
\* equals the PC.
C3_StallCases ==
    Stepped => (PcUnchanged <=>
                   (before.instruction = SIMHALT \/ TakenBranchToSelf \/ JumpToSelf))

\* SIMHALT fetched after other instructions ran, and the PC stayed
C3_Witness ==
    Stepped /\ steps >= 2 /\ before.instruction = SIMHALT /\ PcUnchanged

-----------------------------------------------------------------------------
(* Programs given as source text, assembled, loaded and stepped until the     *)
(* PC stalls, as assemble_and_load and run_until_halt do.                     *)

\* run_until_halt(&mut cpu, &mut memory, 1000)
MaxSteps == 1000

Indent == "    "

RunInput(kind) ==
    [run |-> TRUE, poll |-> TRUE, max_steps |-> MaxSteps, entry |-> None, kind |-> kind]

\* MOVEQ #i, Dn after instructions that leave a data register and an address
\* register non-zero
MoveqLine(i, n) == Indent \o "MOVEQ #" \o ToDec(i) \o ", D" \o ToDec(n)

MoveqProgram(i, n, m) ==
    << Indent \o "ORG $1000",
       "MARK: MOVEA.L #MARK, A1",
       MoveqLine(85, m),
       MoveqLine(i, n),
       Indent \o "SIMHALT" >>

InitMoveq ==
    /\ \E i \in -128..127, n \in Regs, m \in {0, 7} :
          Source(MoveqProgram(i, n, m),
                 [RunInput("moveq") EXCEPT !.entry = Some(4096)] @@ [i |-> i, n |-> n, m |-> m])
    /\ checked \in BOOLEAN

SpecMoveq == InitMoveq /\ [][RunNext]_vars

\* the instruction record the assembler keeps for the MOVEQ line under test
MoveqInst == asm.instructions[3]

MoveqWord == 28672 + input.n * 512 + (input.i % 256)

\* C2: MOVEQ #i, Dn assembles to the single word 0x7000 | (n << 9) | (i mod 256),
\* and the step that executes that word sets Dn to i sign-extended, advances
\* the PC by exactly 2 and changes no other data or address register.
C2_MoveqEncodesAndExecutes ==
    /\ phase # "source" =>
          /\ Len(asm.instructions) = 4
          /\ MoveqInst.mnemonic = "MOVEQ"
          /\ \E k \in 1..Len(code) :
                /\ code[k] = <<MoveqInst.address, MoveqWord>>
                /\ \A j \in 1..Len(code) :
                      code[j][1] \in MoveqInst.address..(MoveqInst.address + 1) => j = k
                /\ k < Len(code) /\ code[k + 1][1] = MoveqInst.address + 2
    /\ (Stepped /\ before.cpu.program_counter = MoveqInst.address) =>
          /\ before.instruction = MoveqWord
          /\ cpu.data_registers[input.n] = input.i
          /\ cpu.program_counter = before.cpu.program_counter + 2
          /\ \A r \in Regs \ {input.n} : cpu.data_registers[r] = before.cpu.data_registers[r]
          /\ cpu.address_registers = before.cpu.address_registers

\* MOVEQ #-128, D7 executed with D0 = 85 and A1 = $1000 already set
C2_Witness ==
    /\ Stepped /\ before.cpu.program_counter = MoveqInst.address
    /\ input.i = -128 /\ input.n = 7 /\ input.m = 0
    /\ before.instruction = 32384
    /\ cpu.data_registers[7] = -128
    /\ cpu.data_registers[0] = 85
    /\ cpu.address_registers[1] = 4096

-----------------------------------------------------------------------------
(* test_power_of_two_calculation: 2^N by a MULS loop, for N in 0..15 *)

PowProgram(N) ==
    << "",
       "            ORG     $0800",
       "N_VALUE:    DC.L    " \o ToDec(N) \o "         ",
       "RESULT:     DS.L    1           ",
       "",
       "            ORG     $1000",
       "",
       "START:      MOVE.L  #1, D0         ",
       "            MOVEA.L #N_VALUE, A0  ",
       "            MOVE.L  (A0), D1       ",
       "            CMP.L   #0, D1",
       "            BEQ     DONE          ",
       "",
       "LOOP:       MULS    #2, D0        ",
       "            SUBQ.L  #1, D1        ",
       "            BNE     LOOP         ",
       "",
       "DONE:       MOVEA.L #RESULT, A1   ",
       "            MOVE.L  D0, (A1)       ",
       "            SIMHALT",
       "    " >>

InitPow ==
    /\ \E N \in 0..15 : Source(PowProgram(N), RunInput("pow") @@ [n |-> N])
    /\ checked \in BOOLEAN

\* the driver keeps assembling, loading and stepping while it can
SpecPow == InitPow /\ [][RunNext]_vars /\ WF_vars(RunNext)

\* the PC stalled at SIMHALT with the power in D0 and RESULT and the counter at 0
PowHalted ==
    /\ Stalled
    /\ before.instruction = SIMHALT
    /\ cpu.data_registers[0] = 2 ^ input.n
    /\ cpu.data_registers[1] = 0
    /\ read_long(mem, 2052) = 2 ^ input.n

\* C4: the power-of-two program, assembled, loaded and stepped from $1000,
\* eventually reaches a step that leaves the PC unchanged; the only such step
\* is at the SIMHALT word, and then D0 = 2^N, D1 = 0 and read_long($0804) = 2^N.
C4_PowerOfTwoHalts ==
    /\ <>PowHalted
    /\ [](Stalled => PowHalted)
    /\ [](phase = "running" /\ steps = 0 /\ fault = "none" => cpu.program_counter = 4096)

\* 2^8 = 256 after the loop ran eight times
C4_Witness ==
    /\ PowHalted
    /\ input.n = 8
    /\ cpu.data_registers[0] = 256
    /\ steps = 5 + 3 * 8 + 3

-----------------------------------------------------------------------------
(* test_cmpi_beq_branch: compare two immediates and branch on equality *)

CmpValues == {0, 1, 5, 42, 99, 255, 256, 32767, 32768, 65535}

CmpProgram(a, b) ==
    << "",
       "            ORG     $1000",
       "            MOVE.L  #" \o ToDec(a) \o ", D0",
       "            CMP.L   #" \o ToDec(b) \o ", D0",
       "            BEQ     EQUAL",
       "            MOVE.L  #99, D1",
       "            SIMHALT",
       "EQUAL:      MOVE.L  #42, D1",
       "            SIMHALT",
       "    " >>

InitCmp ==
    /\ \E a \in CmpValues, b \in CmpValues :
          Source(CmpProgram(a, b), RunInput("cmp") @@ [a |-> a, b |-> b])
    /\ checked \in BOOLEAN

SpecCmp == InitCmp /\ [][RunNext]_vars

\* C5: the compare-and-branch program runs without a fault, its fifth step is
\* the first that leaves the PC unchanged, that step is at SIMHALT, and it
\* halts with D1 = 42 if a = b and with D1 = 99 if a # b.
C5_CompareAndBranch ==
    /\ fault = "none"
    /\ (phase = "running" /\ steps = 5) => Stalled
    /\ Stalled =>
          /\ steps = 5
          /\ before.instruction = SIMHALT
          /\ cpu.data_registers[0] = input.a
          /\ cpu.data_registers[1] = IF input.a = input.b THEN 42 ELSE 99

\* both outcomes: 5 against 5 halts with 42
C5_Witness ==
    /\ Stalled /\ before.instruction = SIMHALT
    /\ input.a = 5 /\ input.b = 5
    /\ cpu.data_registers[1] = 42
    /\ cpu.program_counter = 4116

-----------------------------------------------------------------------------
(* Branch lines: every mnemonic, labels before and after the branch at       *)
(* displacements around the 8-bit range, undefined labels and literal         *)
(* displacements; the branch is then executed with the flags a preceding      *)
(* MOVEQ leaves.                                                              *)

MaxBranchSteps == 3

BranchMnemonics ==
    {"BRA", "BEQ", "BNE", "BCC", "BCS", "BPL", "BMI", "BGE", "BLT", "BGT", "BLE"}

BranchAddresses == {4096, 8192}

\* addr(L) - (A + 2) for a label operand, N for a literal operand
BranchOffsets == {-129, -128, -127, -2, -1, 0, 1, 2, 126, 127, 128}

\* nothing, or an instruction that sets Z, or one that sets N
BranchPreludes == {"", "MOVEQ #0, D0", "MOVEQ #-1, D0"}

BranchOperands ==
    [kind : {"label"}, d : BranchOffsets, order : {"before", "after"}]
        \cup [kind : {"literal"}, d : BranchOffsets, order : {"none"}]
        \cup [kind : {"undefined"}, d : {0}, order : {"none"}]

OperandText(o) ==
    CASE o.kind = "label" -> "TARGET"
      [] o.kind = "literal" -> ToSigned(o.d)
      [] OTHER -> "NOWHERE"

BranchProgram(mn, o, a, prelude) ==
    LET body == << Indent \o "ORG     " \o ToDec(IF prelude = "" THEN a ELSE a - 2) >>
                \o (IF prelude = "" THEN <<>> ELSE << Indent \o prelude >>)
                \o << Indent \o mn \o "     " \o OperandText(o), Indent \o "SIMHALT" >>
        label == << Indent \o "ORG     " \o ToDec(a + 2 + o.d), "TARGET:" >>
    IN  CASE o.order = "before" -> label \o body
          [] o.order = "after" -> body \o label
          [] OTHER -> body

InitBranch ==
    /\ \E mn \in BranchMnemonics, o \in BranchOperands, a \in BranchAddresses,
          prelude \in BranchPreludes :
          Source(BranchProgram(mn, o, a, prelude),
                 [RunInput("branch") EXCEPT !.max_steps = MaxBranchSteps]
                     @@ [mn |-> mn, operand |-> o, prelude |-> prelude])
    /\ checked \in BOOLEAN

SpecBranch == InitBranch /\ [][RunNext]_vars

\* the instruction record of the branch line, and the entries emitted at its address
BranchInst == asm.instructions[IF input.prelude = "" THEN 1 ELSE 2]

EntriesAt(address) == {k \in 1..Len(code) : code[k][1] = address}

BranchWord == code[CHOOSE k \in EntriesAt(BranchInst.address) : TRUE][2]

\* the operand is a label the assembler has bound within reach of the branch
LabelInRange ==
    /\ input.operand.kind = "label"
    /\ "TARGET" \in DOMAIN asm.labels
    /\ asm.labels["TARGET"] - (BranchInst.address + 2) \in -128..127

LiteralInRange == input.operand.kind = "literal" /\ input.operand.d \in -128..127

\* C6: for every branch mnemonic, branch address A and label L, before or after
\* the branch, with -128 <= addr(L) - (A+2) <= 127, the low byte of the emitted
\* word, sign-extended and added to A+2 as the CPU does for a taken branch,
\* gives addr(L); and a step that takes the branch leaves the PC at addr(L).
C6_BranchRoundTrip ==
    (phase # "source" /\ LabelInRange) =>
        /\ Cardinality(EntriesAt(BranchInst.address)) = 1
        /\ BranchWord \div 4096 = 6
        /\ Sext8(BranchWord % 256) + BranchInst.address + 2 = asm.labels["TARGET"]
        /\ BranchTarget(BranchInst.address, BranchWord) = asm.labels["TARGET"]
        /\ (Stepped /\ before.cpu.program_counter = BranchInst.address) =>
              /\ before.instruction = BranchWord
              /\ check_condition(before.cpu, (BranchWord \div 256) % 16) =>
                     cpu.program_counter = asm.labels["TARGET"]

\* BEQ taken with Z set, 128 bytes back from the address after the branch
C6_Witness ==
    /\ Stepped /\ LabelInRange
    /\ input.mn = "BEQ" /\ input.operand.order = "before"
    /\ BranchInst.address = 8192 /\ asm.labels["TARGET"] = 8066
    /\ before.cpu.program_counter = 8192
    /\ BitSet(before.cpu.condition_code_register, 4)
    /\ before.instruction = 26496
    /\ cpu.program_counter = 8066

\* C10: a branch line emits a word iff its operand is a defined label within
\* -128..127 of the address after the branch, or a literal +N/-N that fits a
\* signed byte; for a literal the word is 0x6000 | (cond << 8) | (N mod 256)
\* whatever the address; otherwise the line emits nothing, and the other lines
\* are encoded either way.
C10_BranchEmission ==
    phase # "source" =>
        /\ EntriesAt(BranchInst.address) # {} <=> (LabelInRange \/ LiteralInRange)
        /\ Cardinality(EntriesAt(BranchInst.address)) <= 1
        /\ LiteralInRange =>
              BranchWord = 24576 + BranchCondition[input.mn] * 256 + (input.operand.d % 256)
        /\ \E k \in 1..Len(code) : code[k] = <<BranchInst.address + 2, SIMHALT>>
        /\ input.prelude # "" =>
              \E k \in 1..Len(code) : /\ code[k][1] = BranchInst.address - 2
                                      /\ code[k][2] \div 4096 = 7
        /\ Len(code) = Cardinality(EntriesAt(BranchInst.address)) + 1
                           + (IF input.prelude = "" THEN 0 ELSE 1)

\* BRA +2 is 0x6002, at $2000 as anywhere; the line after it is encoded too
C10_Witness ==
    /\ phase = "assembled"
    /\ input.mn = "BRA" /\ input.operand.kind = "literal" /\ input.operand.d = 2
    /\ BranchInst.address = 8192
    /\ code = << <<8192, 24578>>, <<8194, SIMHALT>> >>

-----------------------------------------------------------------------------
(* Data directives: DC.L with decimal and hexadecimal values, with and        *)
(* without a label, followed by DS.L and a labelled instruction.              *)

MaxDataSteps == 2

DataAddresses == {0, 2048, 4097}

\* the value as written, and its high and low words
DataLiterals ==
    { <<"0", 0, 0>>, <<"8", 0, 8>>, <<"65535", 0, 65535>>, <<"65536", 1, 0>>,
      <<"305419896", 4660, 22136>>, <<"0x12345678", 4660, 22136>>,
      <<"2147483647", 32767, 65535>>, <<"2147483648", 32768, 0>>,
      <<"$80000000", 32768, 0>>, <<"$FFFF0000", 65535, 0>>,
      <<"$ffffffff", 65535, 65535>>, <<"4294967295", 65535, 65535>> }

DcForms == {"VAL: DC.L ", "VAL DC.L ", "DC.L ", "val:    dc.l    "}

DsForms == {"BUF: DS.L 1", "BUF: DS.L 3", "DS.L 1", "BUF     DS.L    1"}

DataProgram(a, dc, v, ds) ==
    << Indent \o "ORG " \o ToDec(a),
       dc \o v,
       ds,
       "NEXT:   SIMHALT" >>

InitData ==
    /\ \E a \in DataAddresses, dc \in DcForms, v \in DataLiterals, ds \in DsForms :
          Source(DataProgram(a, dc, v[1], ds),
                 [RunInput("data") EXCEPT !.max_steps = MaxDataSteps]
                     @@ [a |-> a, high |-> v[2], low |-> v[3], ds |-> ds])
    /\ checked \in BOOLEAN

SpecData == InitData /\ [][RunNext]_vars

\* C7: DC.L v at address a emits exactly (a, v >> 16) and (a+2, v & 0xFFFF), so
\* that read_long(a) = v after loading; DS.L emits nothing and advances the
\* address by 4, so the label after it is bound 4 bytes after the DS.L line.
C7_DataDirectives ==
    /\ phase # "source" =>
          /\ code = << <<input.a, input.high>>, <<input.a + 2, input.low>>,
                       <<input.a + 8, SIMHALT>> >>
          /\ asm.labels["NEXT"] = input.a + 8
          /\ starts_with(input.ds, "BUF") => asm.labels["BUF"] = input.a + 4
    /\ (phase = "running" /\ steps = 0) =>
          /\ fault = "none"
          /\ read_long(mem, input.a) = LongOf(input.high, input.low)
          /\ read_word(mem, input.a) = input.high
          /\ read_word(mem, input.a + 2) = input.low

\* DC.L 4294967295 at the odd address 4097, loaded, with NEXT after DS.L 3
C7_Witness ==
    /\ phase = "running" /\ steps = 0
    /\ input.a = 4097 /\ input.high = 65535 /\ input.low = 65535
    /\ input.ds = "BUF: DS.L 3"
    /\ read_long(mem, 4097) = -1
    /\ asm.labels["BUF"] = 4101 /\ asm.labels["NEXT"] = 4105

-----------------------------------------------------------------------------
(* One Assembler used for several calls of assemble, as                       *)
(* test_assembler_error_handling does.                                        *)

MaxCalls == 2

TwicePrograms ==
    { <<>>,
      << "TARGET: NOP" >>,
      << "    BRA TARGET", "    NOP" >>,
      << "    BRA TARGET", "TARGET: SIMHALT" >>,
      << "    ORG $1000", "LOOP: MOVEQ #1, D0", "    BNE LOOP", "    SIMHALT" >>,
      << "    ORG $2000", "VAL: DC.L 7", "    MOVEA.L #VAL, A0" >>,
      << "    MOVEA.L #VAL, A0", "    JMP LOOP" >>,
      << "LOOP:", "TARGET:", "VAL:" >>,
      << "    INVALID D0", "    MOVEQ #300, D0" >>,
      << "    NOP", "END", "TARGET: NOP" >> }

\* the number of assemble calls made on the assembler
RECURSIVE CallDepth(_)
CallDepth(l) == IF l.op # "assemble" THEN 0 ELSE 1 + CallDepth(l.previous)

\* a further assembler.assemble(&lines) on the same Assembler
AssembleAgain ==
    /\ phase = "assembled"
    /\ ~input.run
    /\ CallDepth(last) < MaxCalls
    /\ \E next \in TwicePrograms :
          /\ LET r == assemble(asm, next)
             IN  /\ asm' = r.asm
                 /\ code' = r.machine_code
          /\ lines' = next
          /\ last' = [op |-> "assemble", lines |-> next, previous |-> last]
    /\ UNCHANGED <<mem, cpu, checked, fault, before, phase, steps, input>>

InitTwice ==
    /\ \E first \in TwicePrograms : Source(first, [run |-> FALSE, kind |-> "twice"])
    /\ checked = FALSE

NextTwice == Assemble \/ AssembleAgain

SpecTwice == InitTwice /\ [][NextTwice]_vars

\* C8: whatever an Assembler assembled before, assemble(Q) returns the stream,
\* and leaves the label table and instruction list, that a fresh Assembler
\* gives for Q; a label defined only by an earlier call is not resolved.
C8_NoCrossCallState ==
    phase = "assembled" =>
        /\ code = assemble(NewAssembler, lines).machine_code
        /\ asm = assemble(NewAssembler, lines).asm
        /\ \A name \in DOMAIN asm.labels :
              \E i \in 1..Len(lines) : contains(lines[i], name)

\* BRA TARGET assembled after a program that defined TARGET: the branch is
\* not encoded, only the NOP after it
C8_Witness ==
    /\ phase = "assembled"
    /\ CallDepth(last) = 2
    /\ last.previous.lines = << "TARGET: NOP" >>
    /\ lines = << "    BRA TARGET", "    NOP" >>
    /\ code = << <<2, NOP>> >>
    /\ asm.labels = <<>>

-----------------------------------------------------------------------------
(* Lines that emit nothing: blank lines, comments, and a statement whose      *)
(* mnemonic no encoder knows, alone and between valid lines.                  *)

MaxBestSteps == 3

\* the mnemonics encode_instruction_with_ext matches
Mnemonics ==
    DOMAIN BranchCondition \cup
    {"MOVEQ", "MOVE", "MOVEA", "MULS", "TST", "SUBQ", "ASL", "DBRA", "NOP",
     "SIMHALT", "ADD", "SUB", "CMP", "JMP", "JUMP"}

\* the lines before the statement, the label on its line, the lines after it
BestContexts ==
    { [before |-> <<>>, label |-> "", after |-> <<>>],
      [before |-> << "; This is just a comment" >>, label |-> "  ",
       after |-> << "  ; Another comment  " >>],
      [before |-> << "    ORG $1000", "    MOVEQ #1, D0" >>, label |-> Indent,
       after |-> << "    BRA DONE", "    MOVEQ #2, D1", "DONE: SIMHALT" >>],
      [before |-> << "", "    ORG $2000", "VAL: DC.L 7" >>, label |-> "",
       after |-> << "    NOP", "", "    MOVE.L #VAL, D2", "    SIMHALT" >>],
      [before |-> << "    ORG $1000", "    MOVEQ #3, D0" >>, label |-> "HERE: ",
       after |-> << "    MOVEA.L #HERE, A0", "NEXT: SIMHALT" >>] }

BestStatements ==
    { "", "; This is just a comment", "UNKNOWN D0, D1", "FOO", "xyz.l #1, D0",
      "ENDX D0", "endif", "ORGAN $2000", "ADDS.L D0, D1", "LDS.W D0" }

\* what the statement is: nothing, a comment, or an instruction by its first token
StatementClass(statement) ==
    IF trim(statement) = "" THEN "blank"
    ELSE IF starts_with(trim(statement), ";") THEN "comment"
    ELSE IF to_uppercase(split(split_whitespace(statement)[1], ".")[1]) \in Mnemonics
    THEN "known"
    ELSE "unknown"

BestProgram(ctx, statement) == ctx.before \o << ctx.label \o statement >> \o ctx.after

\* the program to compare with: the line left out if it is blank or a comment,
\* NOP in the place of the statement otherwise
BestReference(ctx, statement) ==
    IF StatementClass(statement) \in {"blank", "comment"} THEN ctx.before \o ctx.after
    ELSE BestProgram(ctx, "NOP")

BestInput(ctx, statement) ==
    [RunInput("best") EXCEPT !.max_steps = MaxBestSteps]
        @@ [class |-> StatementClass(statement), slot |-> ctx.label \o statement,
            reference |-> BestReference(ctx, statement)]

InitBest ==
    /\ \/ \E ctx \in BestContexts, statement \in BestStatements :
             /\ StatementClass(statement) = "unknown" \/ trim(ctx.label) = ""
             /\ Source(BestProgram(ctx, statement), BestInput(ctx, statement))
       \/ Source(<<>>, [RunInput("best") EXCEPT !.max_steps = MaxBestSteps]
                           @@ [class |-> "empty", slot |-> "", reference |-> <<>>])
    /\ checked \in BOOLEAN

SpecBest == InitBest /\ [][RunNext]_vars

\* the line reaches parse_instruction: pass 1 takes it neither for END or ORG
\* nor for a data directive
ParsedAsInstruction(text) ==
    LET upper == to_uppercase(trim(text))
    IN  /\ ~starts_with(upper, "END")
        /\ ~starts_with(upper, "ORG")
        /\ ~contains(upper, "DC.")
        /\ ~contains(upper, "DS.")

RemoveAt(s, k) == SubSeq(s, 1, k - 1) \o SubSeq(s, k + 1, Len(s))

\* the labels, the addresses and sizes of all instruction records, and the
\* stream are those of ref, but for the one NOP of ref that is not emitted
SameButNop(ref) ==
    /\ asm.labels = ref.asm.labels
    /\ Len(asm.instructions) = Len(ref.asm.instructions)
    /\ \E j \in 1..Len(ref.asm.instructions) :
          /\ ref.asm.instructions[j].mnemonic = "NOP"
          /\ asm.instructions[j].mnemonic \notin Mnemonics
          /\ asm.instructions[j].size = 2
          /\ asm.instructions[j].address = ref.asm.instructions[j].address
          /\ \A i \in 1..Len(asm.instructions) :
                i # j => asm.instructions[i] = ref.asm.instructions[i]
          /\ \E k \in 1..Len(ref.machine_code) :
                /\ ref.machine_code[k] = <<ref.asm.instructions[j].address, NOP>>
                /\ code = RemoveAt(ref.machine_code, k)

NothingEmitted(ref) ==
    /\ code = ref.machine_code
    /\ asm = ref.asm
    /\ (\A i \in 1..Len(lines) : StatementClass(lines[i]) \in {"blank", "comment"})
          => code = <<>>

-----------------------------------------------------------------------------
(* The flags after one step of the CPU, against the result of the             *)
(* instruction the step executed.                                             *)

\* MOVE.L #imm, Dn; MOVE.L (An), Dn; MOVE.L Dn, (An): the words move_instruction
\* takes for them
IsMoveImmediate(w) ==
    (w \div 4096) % 16 \in 1..3 /\ (w \div 4096) % 4 = 2
        /\ (w \div 64) % 8 = 7 /\ (w \div 8) % 8 = 7 /\ w % 8 = 4

IsMoveFromIndirect(w) ==
    (w \div 4096) % 16 \in 1..3 /\ (w \div 4096) % 4 = 2
        /\ (w \div 64) % 8 = 0 /\ (w \div 8) % 8 = 2

IsMoveToIndirect(w) ==
    (w \div 4096) % 16 \in 1..3 /\ (w \div 4096) % 4 = 2
        /\ (w \div 64) % 8 = 2 /\ (w \div 8) % 8 = 0

\* MULS #imm, Dn and MULS Ds, Dd: the words and_instruction takes for them
IsMulsImmediate(w) ==
    (w \div 4096) % 16 = 12 /\ (w \div 64) % 8 = 7 /\ (w \div 8) % 8 = 7 /\ w % 8 = 4

IsMulsRegister(w) ==
    (w \div 4096) % 16 = 12 /\ (w \div 64) % 8 = 7 /\ (w \div 8) % 8 = 0

IsCmpi(w) == w - (w % 8) = 3200

\* the 32-bit result of the instruction the last step executed: the value
\* moved, the value the destination register received, or the difference a
\* compare formed; None for the other instructions
StepResult ==
    LET w == before.instruction
        c == before.cpu
        dest == (w \div 512) % 8
        src == w % 8
        opcode == (w \div 4096) % 16
    IN  CASE IsMoveImmediate(w) -> Some(read_word(before.mem, c.program_counter + 2))
          [] IsMoveFromIndirect(w) -> Some(cpu.data_registers[dest])
          [] IsMoveToIndirect(w) -> Some(c.data_registers[src])
          [] w = 12800 -> Some(c.data_registers[0])
          [] IsCmpi(w) ->
                 Some(WrappingSub(c.data_registers[src],
                                  read_word(before.mem, c.program_counter + 2)))
          [] opcode = 5 -> Some(cpu.data_registers[src])
          [] opcode = 7 -> Some(cpu.data_registers[dest])
          [] opcode \in {9, 13} -> Some(cpu.data_registers[dest])
          [] opcode = 11 ->
                 Some(WrappingSub(c.data_registers[dest], c.data_registers[src]))
          [] IsMulsImmediate(w) \/ IsMulsRegister(w) -> Some(cpu.data_registers[dest])
          [] OTHER -> None

FlagsFollow(result) ==
    /\ BitSet(cpu.condition_code_register, 4) <=> (result = 0)
    /\ BitSet(cpu.condition_code_register, 8) <=> (result < 0)

\* C11: after a step that executed MOVE, MOVEQ, ADD, SUB, CMP, CMPI, MULS, ADDQ
\* or SUBQ, Z is set iff the 32-bit result is zero and N iff it is negative.
C11_FlagsFollowResult ==
    (Stepped /\ IsSome(StepResult)) => FlagsFollow(Unwrap(StepResult))

-----------------------------------------------------------------------------
(* The CPU stepped over words in memory and reset between steps.              *)

\* cpu.reset(), at most twice in a row
Reset ==
    /\ phase = "running"
    /\ fault = "none"
    /\ ~(last.op = "reset" /\ last.again)
    /\ cpu' = reset(cpu)
    /\ last' = [op |-> "reset", cpu |-> cpu, again |-> last.op = "reset"]
    /\ UNCHANGED <<mem, asm, lines, code, checked, fault, before, phase, steps, input>>

NextReset == Step \/ Reset

SpecReset == Init /\ [][NextReset]_vars

\* the last call was execute_instruction and it returned
Executed == phase = "running" /\ last.op = "execute_instruction" /\ fault = "none"

\* C12: Carry (bit 0) and Overflow (bit 1) of the CCR are 0 in every state
\* reached from CPU::new() by steps and resets; a BCC word is always taken, a
\* BCS word never.
C12_CarryOverflowClear ==
    /\ cpu.condition_code_register % 4 = 0
    /\ (Executed /\ (before.instruction \div 256) = 100) =>      \* 0x64dd
          cpu.program_counter =
              BranchTarget(before.cpu.program_counter, before.instruction)
    /\ (Executed /\ (before.instruction \div 256) = 101) =>      \* 0x65dd
          cpu.program_counter = before.cpu.program_counter + 2

\* BCC +4 executed with Z set by an earlier MOVEQ #0
C12_Witness ==
    /\ Executed
    /\ before.instruction = 25604
    /\ before.cpu.condition_code_register = 4
    /\ cpu.program_counter = before.cpu.program_counter + 6

\* C16: a new CPU has all data and address registers, the PC and the CCR 0;
\* reset sets PC = 0, CCR = 0 and SR = 0x2700, leaves the data and address
\* registers, the supervisor stack pointer and the vector base register as
\* they were, and a second reset changes nothing.
C16_ResetFrame ==
    /\ \A r \in Regs : NewCPU.data_registers[r] = 0 /\ NewCPU.address_registers[r] = 0
    /\ NewCPU.program_counter = 0 /\ NewCPU.condition_code_register = 0
    /\ last.op = "reset" =>
          /\ cpu.program_counter = 0
          /\ cpu.condition_code_register = 0
          /\ cpu.status_register = 9984
          /\ cpu.data_registers = last.cpu.data_registers
          /\ cpu.address_registers = last.cpu.address_registers
          /\ cpu.supervisor_stack_pointer = last.cpu.supervisor_stack_pointer
          /\ cpu.vector_base_register = last.cpu.vector_base_register
          /\ last.again => cpu = last.cpu

\* reset twice after MOVEQ #-1, D0 and MOVEA.L #$1000, A0 ran: both registers
\* keep their values, the flags are cleared
C16_Witness ==
    /\ last.op = "reset" /\ last.again
    /\ cpu.data_registers[0] = -1
    /\ cpu.address_registers[0] = 4096
    /\ cpu.program_counter = 0

-----------------------------------------------------------------------------
(* One line of each instruction form the assembler encodes, assembled after   *)
(* a MOVEQ and before NOP and SIMHALT, loaded and stepped.                    *)

MaxFormSteps == 4

\* the forms emitted with an extension word
ExtensionForms ==
    { "MOVE.L #5, D0", "MOVE.L VAL, D1", "MOVE.L D0, VAL", "MOVEA.L #VAL, A0",
      "MULS #3, D0", "CMP.L #5, D0" }

\* the forms emitted as one word
SingleForms ==
    { "MOVEQ #1, D1", "MOVE D0, D1", "MOVE.L (A0), D1", "MOVE.L D0, (A0)",
      "MULS D0, D0", "TST D0", "SUBQ #1, D0", "ASL #1, D0", "DBRA D0, +2",
      "ADD D0, D0", "SUB D0, D0", "CMP D0, D0", "NOP", "BEQ +2", "BRA +2" }

FormProgram(form) ==
    << Indent \o "ORG $0800",
       "VAL: DC.L 5",
       Indent \o "ORG $1000",
       Indent \o "MOVEQ #3, D0",
       Indent \o form,
       Indent \o "NOP",
       Indent \o "SIMHALT" >>

InitForms ==
    /\ \E form \in ExtensionForms \cup SingleForms :
          Source(FormProgram(form),
                 [RunInput("forms") EXCEPT !.max_steps = MaxFormSteps] @@ [form |-> form])
    /\ checked \in BOOLEAN

SpecForms == InitForms /\ [][RunNext]_vars

\* what pass 2 emits for an instruction record
WordsOf(inst) == encode_instruction_with_ext(asm.labels, inst)

HasExtension(inst) == IsSome(WordsOf(inst)) /\ IsSome(Unwrap(WordsOf(inst))[2])

SingleWord(inst) == IsSome(WordsOf(inst)) /\ ~IsSome(Unwrap(WordsOf(inst))[2])

Transfers == DOMAIN BranchCondition \cup {"JMP", "JUMP", "SIMHALT"}

\* C13: a step at the address of an instruction emitted with an extension word
\* advances the PC by 4, a step at a single-word instruction that is no branch,
\* jump or halt advances it by 2, and no step fetches an extension word.
C13_DecodeMatchesEncode ==
    Executed =>
        \A i \in 1..Len(asm.instructions) :
            LET inst == asm.instructions[i]
                pc == before.cpu.program_counter
            IN  /\ (inst.address = pc /\ HasExtension(inst))
                      => cpu.program_counter = pc + 4
                /\ (inst.address = pc /\ SingleWord(inst) /\ inst.mnemonic \notin Transfers)
                      => cpu.program_counter = pc + 2
                /\ HasExtension(inst) => pc # inst.address + 2

-----------------------------------------------------------------------------
(* MOVE Dx, Dy for every pair of data registers, after MOVEQ #v, Dx.          *)

MaxMoveSteps == 3

MoveValues == {-1, 0, 7}

MoveProgram(v, x, y) ==
    << Indent \o "ORG $1000",
       MoveqLine(v, x),
       Indent \o "MOVE D" \o ToDec(x) \o ", D" \o ToDec(y),
       Indent \o "SIMHALT" >>

InitMove ==
    /\ \E v \in MoveValues, x \in Regs, y \in Regs :
          Source(MoveProgram(v, x, y),
                 [RunInput("move") EXCEPT !.max_steps = MaxMoveSteps]
                     @@ [v |-> v, x |-> x, y |-> y])
    /\ checked \in BOOLEAN

SpecMove == InitMove /\ [][RunNext]_vars

\* C14: MOVE Dx, Dy assembles to the one word 0x3000 | (y << 9) | x, and the
\* step that executes it copies Dx into Dy, sets Z/N from the value and
\* advances the PC by 2.
C14_MoveRegister ==
    /\ phase # "source" =>
          /\ Len(code) = 3
          /\ code[2] = <<4098, 12288 + input.y * 512 + input.x>>
    /\ (Executed /\ before.cpu.program_counter = 4098) =>
          /\ cpu.data_registers[input.y] = before.cpu.data_registers[input.x]
          /\ FlagsFollow(before.cpu.data_registers[input.x])
          /\ cpu.program_counter = 4100

-----------------------------------------------------------------------------
(* A line followed by a ; comment, against the line alone.                    *)

MaxCommentSteps == 2

CommentedLines ==
    { "    NOP", "    SIMHALT", "    MOVEQ #1, D0", "    MOVE.L #5, D1", "    BRA DONE",
      "    ADD D0, D1", "    ORG $2000", "VAL: DC.L 5", "HERE:", "HERE: MOVEQ #2, D2",
      "    MOVEA.L #DONE, A0" }

Comments == { " ; comment", "; x", "    ; note: see DONE" }

CommentProgram(line) ==
    << Indent \o "ORG $1000", "    MOVEQ #0, D3", line, "DONE: SIMHALT" >>

InitComment ==
    /\ \E line \in CommentedLines, comment \in Comments :
          Source(CommentProgram(line \o comment),
                 [RunInput("comment") EXCEPT !.max_steps = MaxCommentSteps]
                     @@ [reference |-> CommentProgram(line)])
    /\ checked \in BOOLEAN

SpecComment == InitComment /\ [][RunNext]_vars

\* C15: a line followed by a ; comment assembles to the entries, and defines
\* the labels, of the line alone.
C15_TrailingComment ==
    phase # "source" =>
        /\ code = assemble(NewAssembler, input.reference).machine_code
        /\ asm.labels = assemble(NewAssembler, input.reference).asm.labels

-----------------------------------------------------------------------------
(* Words no handler acts on.                                                  *)

IsMoveaImmediate(w) ==
    (w \div 4096) % 16 \in 1..3 /\ (w \div 4096) % 4 = 2
        /\ (w \div 64) % 8 = 1 /\ (w \div 8) % 8 = 7 /\ w % 8 = 4

\* the words of the unimplemented groups, the miscellaneous words and the move
\* words that match no form
Unhandled(w) ==
    LET opcode == (w \div 4096) % 16
    IN  \/ opcode \in {8, 10, 14, 15}
        \/ opcode \in {0, 4} /\ ~IsCmpi(w) /\ w \notin {JMP, NOP, SIMHALT}
        \/ /\ opcode \in 1..3
           /\ ~IsMoveImmediate(w) /\ ~IsMoveaImmediate(w)
           /\ ~IsMoveFromIndirect(w) /\ ~IsMoveToIndirect(w)
           /\ w # 12800

\* C17: a step that fetched a word no handler acts on increases the PC by 2 and
\* leaves the data and address registers, the CCR, the SR and memory unchanged.
C17_UnimplementedNoOp ==
    (Stepped /\ Unhandled(before.instruction)) =>
        /\ cpu = AdvancePc(before.cpu, 2)
        /\ mem = before.mem

\* TST.L D0 (0x4A80), a word the assembler emits, stepped over with N set and
\* D0 = -1: nothing but the PC changes
C17_Witness ==
    /\ Stepped /\ before.instruction = 19072
    /\ before.cpu.condition_code_register = 8
    /\ cpu.condition_code_register = 8
    /\ cpu.data_registers[0] = -1
    /\ cpu.program_counter = before.cpu.program_counter + 2

-----------------------------------------------------------------------------
(* test_muls_multiplication, with both operands loaded from DC.L values so    *)
(* that the registers hold any 32-bit pattern: MULS D1, D2 and MULS #imm, D2. *)

MaxMulsSteps == 6

\* 32-bit patterns as DC.L writes them: the text, its high and its low word
MulsValues ==
    { <<"0", 0, 0>>, <<"1", 0, 1>>, <<"3", 0, 3>>, <<"$7FFF", 0, 32767>>,
      <<"32768", 0, 32768>>, <<"0xFFFF", 0, 65535>>, <<"65538", 1, 2>>,
      <<"$FFFF8000", 65535, 32768>>, <<"$80000000", 32768, 0>>,
      <<"$12345678", 4660, 22136>> }

MulsProgram(vx, vy, immediate) ==
    << Indent \o "ORG $0800",
       "X:  DC.L " \o vx[1],
       "Y:  DC.L " \o vy[1],
       Indent \o "ORG $1000",
       Indent \o "MOVEA.L #X, A0",
       Indent \o "MOVE.L (A0), D1",
       Indent \o "MOVEA.L #Y, A1",
       Indent \o "MOVE.L (A1), D2",
       Indent \o (IF immediate THEN "MULS #" \o ToDec(vx[3]) \o ", D2"
                  ELSE "MULS D1, D2"),
       Indent \o "SIMHALT" >>

InitMuls ==
    /\ \E vx \in MulsValues, vy \in MulsValues, immediate \in BOOLEAN :
          Source(MulsProgram(vx, vy, immediate),
                 [RunInput("muls") EXCEPT !.max_steps = MaxMulsSteps]
                     @@ [vx |-> vx, vy |-> vy, immediate |-> immediate])
    /\ checked \in BOOLEAN

SpecMuls == InitMuls /\ [][RunNext]_vars

\* the step that executed the MULS line, at $100C
MulsExecuted == Executed /\ before.cpu.program_counter = 4108

\* sext16(Dd mod 2^16) * sext16(s) for the values the program declares
MulsProduct == Sext16(input.vy[3]) * Sext16(input.vx[3])

\* C18: after MULS, Dd holds sext16(Dd mod 2^16) * sext16(s), s being the
\* extension word or Ds mod 2^16; the product fits in 32 bits; Z/N reflect it;
\* the PC advances by 4 (immediate form) or 2 (register form); no other
\* register changes.
C18_MulsProduct ==
    MulsExecuted =>
        /\ before.cpu.data_registers[2] = LongOf(input.vy[2], input.vy[3])
        /\ cpu.data_registers[2] = MulsProduct
        /\ MinI32 <= MulsProduct /\ MulsProduct <= MaxI32
        /\ FlagsFollow(MulsProduct)
        /\ cpu.program_counter = 4108 + (IF input.immediate THEN 4 ELSE 2)
        /\ cpu = [before.cpu EXCEPT !.data_registers[2] = MulsProduct,
                                    !.program_counter = cpu.program_counter,
                                    !.condition_code_register = cpu.condition_code_register]
        /\ mem = before.mem

\* 0x8000 in D1 times 0xFFFF8000 in D2, register form: (-32768) * (-32768)
C18_Witness ==
    /\ MulsExecuted /\ ~input.immediate
    /\ before.cpu.data_registers[1] = 32768
    /\ before.cpu.data_registers[2] = -32768
    /\ cpu.data_registers[2] = 1073741824
    /\ cpu.program_counter = 4110

-----------------------------------------------------------------------------
(* test_jump_instruction, placed at an ORG so that it is loaded and run:      *)
(* JMP over zero, one or two instructions to a label.                         *)

MaxJumpSteps == 3

JumpOrigins == {"$1000", "$2000"}

JumpSkipped == {"MOVEQ #2, D0", "NOP", "SIMHALT"}

JumpProgram(origin, skipped, count) ==
    << "main:",
       Indent \o "ORG " \o origin,
       Indent \o "MOVEQ #1, D0",
       Indent \o "JMP target" >>
    \o [i \in 1..count |-> Indent \o skipped]
    \o << "target:",
          Indent \o "MOVEQ #3, D0",
          Indent \o "SIMHALT" >>

InitJump ==
    /\ \E origin \in JumpOrigins, skipped \in JumpSkipped, count \in 0..2 :
          Source(JumpProgram(origin, skipped, count),
                 [RunInput("jump") EXCEPT !.max_steps = MaxJumpSteps])
    /\ checked \in BOOLEAN

SpecJump == InitJump /\ [][RunNext]_vars

\* C19: the step that executes the JMP word of JMP target leaves the PC at the
\* address of target.
C19_JumpReachesLabel ==
    /\ phase # "source" =>
          /\ "target" \in DOMAIN asm.labels
          /\ \E i \in 1..Len(code) : code[i][2] = JMP
    /\ (Executed /\ before.instruction = JMP) =>
          cpu.program_counter = asm.labels["target"]

-----------------------------------------------------------------------------
(* MOVEA.L #L, An with L bound anywhere in the 24-bit address space, and      *)
(* MOVE.L #v, Dn for the immediates parse_immediate_u16 accepts.              *)

MaxLoadSteps == 2

\* the ORG text that binds L, and the address it gives
LabelAddresses ==
    { <<"0", 0>>, <<"$0800", 2048>>, <<"$1004", 4100>>, <<"$FFFE", 65534>>,
      <<"$10000", 65536>>, <<"$12344", 74564>>, <<"0xFFFFFE", 16777214>> }

\* an immediate as written, and its value
Immediates ==
    { <<"0", 0>>, <<"1", 1>>, <<"$FF", 255>>, <<"32768", 32768>>, <<"0xFFFF", 65535>> }

LoadRegisters == {0, 3, 7}

MoveaProgram(n, at) ==
    << Indent \o "ORG $1000",
       Indent \o "MOVEA.L #L, A" \o ToDec(n),
       Indent \o "SIMHALT",
       Indent \o "ORG " \o at,
       "L:" >>

MoveImmediateProgram(n, v) ==
    << Indent \o "ORG $1000",
       Indent \o "MOVE.L #" \o v \o ", D" \o ToDec(n),
       Indent \o "SIMHALT" >>

InitLoad ==
    /\ \E n \in LoadRegisters :
          \/ \E at \in LabelAddresses :
                Source(MoveaProgram(n, at[1]),
                       [RunInput("movea") EXCEPT !.max_steps = MaxLoadSteps]
                           @@ [n |-> n, value |-> at[2]])
          \/ \E v \in Immediates :
                Source(MoveImmediateProgram(n, v[1]),
                       [RunInput("move") EXCEPT !.max_steps = MaxLoadSteps]
                           @@ [n |-> n, value |-> v[2]])
    /\ checked \in BOOLEAN

SpecLoad == InitLoad /\ [][RunNext]_vars

\* the step that executed the first instruction, at $1000
LoadExecuted == Executed /\ before.cpu.program_counter = 4096

\* C20: executing the assembled MOVEA.L #L, An leaves An = addr(L) and the PC
\* advanced by 4; executing MOVE.L #v, Dn leaves Dn = v.
C20_LoadsFullValue ==
    /\ (phase # "source" /\ input.kind = "movea") => asm.labels = [L |-> input.value]
    /\ LoadExecuted =>
          /\ cpu.program_counter = 4100
          /\ input.kind = "movea" => cpu.address_registers[input.n] = input.value
          /\ input.kind = "move" => cpu.data_registers[input.n] = input.value

-----------------------------------------------------------------------------
(* Pass-1 sizing: one instruction line after labels VAL, DATA and ADDR, the   *)
(* label NEXT after it.                                                       *)

MaxSizeSteps == 2

SizedLines ==
    { "MOVE.L #5, D0", "MOVE.L VAL, D0", "MOVE.L DATA, D0", "MOVE.L ADDR, D1",
      "MOVE.L D0, VAL", "MOVE.L D0, ADDR", "MOVEA.L #DATA, A0", "MOVEA.L #VAL, A1",
      "MOVE.L D0, D1", "MOVE.L (A0), D1", "MOVE.L D1, (A0)", "MOVE.L A0, D1",
      "CMP.L #5, D0", "MULS #3, D0", "MULS D1, D0", "CMP D0, D1", "MOVEQ #1, D0",
      "NOP", "MOVE D0, D1", "ADD D0, D1", "SUBQ #1, D0", "BRA NEXT",
      "MOVE #5, D0", "CMP #5, D0" }

SizeProgram(line) ==
    << Indent \o "ORG $0800",
       "VAL: DC.L 1",
       "DATA: DC.L 2",
       "ADDR: DC.L 3",
       Indent \o "ORG $1000",
       Indent \o line,
       "NEXT: SIMHALT" >>

InitSize ==
    /\ \E line \in SizedLines :
          Source(SizeProgram(line),
                 [RunInput("size") EXCEPT !.max_steps = MaxSizeSteps] @@ [line |-> line])
    /\ checked \in BOOLEAN

SpecSize == InitSize /\ [][RunNext]_vars

\* the operand names a register: Dn, An or (An)
IsRegister(operand) ==
    \/ IsSome(parse_data_register(operand))
    \/ IsSome(parse_address_register(operand))
    \/ IsSome(parse_indirect_register(operand))

\* the size the sizing rule gives the line: 4 for MOVE.L/MOVEA.L unless both
\* operands are registers, 4 for CMP.L #imm and MULS #imm, 2 otherwise
ClaimedSize(line) ==
    LET inst == parse_instruction(line, 0)
        long == starts_with(line, inst.mnemonic \o ".L")
        ops == inst.operands
    IN  IF Len(ops) < 2 THEN 2
        ELSE IF inst.mnemonic \in {"MOVE", "MOVEA"} /\ long
        THEN IF IsRegister(ops[1]) /\ IsRegister(ops[2]) THEN 2 ELSE 4
        ELSE IF inst.mnemonic = "CMP" /\ long /\ starts_with(ops[1], "#") THEN 4
        ELSE IF inst.mnemonic = "MULS" /\ starts_with(ops[1], "#") THEN 4
        ELSE 2

\* C21: the line at $1000 is given the size of the sizing rule, whatever the
\* label names are: the record carries it and NEXT is bound that far on.
C21_PassOneSizes ==
    phase # "source" =>
        /\ asm.instructions[1].address = 4096
        /\ asm.instructions[1].size = ClaimedSize(input.line)
        /\ asm.labels["NEXT"] = 4096 + ClaimedSize(input.line)

-----------------------------------------------------------------------------
(* The addresses the CPU uses.                                                *)

\* C22: no step fails with an access outside the 16 MiB memory.
C22_AccessesInRange == fault # "index out of bounds"

-----------------------------------------------------------------------------
(* The bytes a write leaves alone.                                            *)

\* the bytes at and next to the addresses written
FrameBytes == {b \in UNION {{a - 1, a, a + 1, a + 2, a + 3, a + 4} : a \in MemAddrs} : InMem(b)}

\* the bytes the call recorded in l may change
Written(l) == IF l.op = "write_word" THEN WordAddrs(l.address) ELSE LongAddrs(l.address)

\* C23: a write_word or write_long that returns changes no byte outside
\* a..a+1, respectively a..a+3, so what was written elsewhere reads back
\* unchanged; before any write every byte reads as 0.
C23_WriteFrame ==
    [][ fault' = "none" =>
            \A b \in FrameBytes :
                /\ steps = 0 => read_byte(mem, b) = 0
                /\ b \notin Written(last') => read_byte(mem', b) = read_byte(mem, b) ]_vars

\* a word written at $1000 after a long at 0: the long reads back, and the
\* bytes around both are still 0
C23_Witness ==
    /\ steps = 2 /\ fault = "none"
    /\ last.op = "write_word" /\ last.address = 4096 /\ last.value = 43981
    /\ read_long(mem, 0) = 305419896
    /\ read_byte(mem, 4) = 0 /\ read_byte(mem, 4095) = 0 /\ read_byte(mem, 4098) = 0

-----------------------------------------------------------------------------
(* CPU::run after SIMHALT.                                                    *)

\* the last step fetched SIMHALT
Halted == Stepped /\ before.instruction = SIMHALT

\* C24: once a step has fetched SIMHALT, every later step fetches it again and
\* leaves the CPU and memory as they are, and the loop of run always has a next
\* iteration.
C24_HaltAbsorbing ==
    /\ [][ Halted => /\ cpu' = cpu
                     /\ mem' = mem
                     /\ fault' = "none"
                     /\ before'.instruction = SIMHALT ]_vars
    /\ []((Halted /\ steps < input.max_steps) => ENABLED Step)

\* SIMHALT fetched a second time after MOVEQ #-1, D0: nothing has changed
C24_Witness ==
    /\ Halted /\ steps = 3
    /\ before.cpu = cpu /\ before.mem = mem
    /\ cpu.data_registers[0] = -1
    /\ cpu.condition_code_register = 8

-----------------------------------------------------------------------------
(* Branch steps.                                                              *)

\* C25: a step that executes BRA, BEQ or BNE changes only the PC: registers,
\* CCR and memory are unchanged; the new PC is PC + 2 + sext8(low byte) when the
\* condition holds (BRA always, BEQ iff Z, BNE iff not Z) and PC + 2 otherwise.
C25_BranchFrame ==
    LET w == before.instruction
        pc == before.cpu.program_counter
        z == BitSet(before.cpu.condition_code_register, 4)
        cond == (w \div 256) % 16
        holds == cond = 0 \/ (cond = 7 /\ z) \/ (cond = 6 /\ ~z)
        low == w % 256
        disp == IF low >= 128 THEN low - 256 ELSE low
    IN  (Stepped /\ (w \div 4096) % 16 = 6 /\ cond \in {0, 6, 7}) =>
            /\ cpu = [before.cpu EXCEPT
                          !.program_counter = IF holds THEN pc + 2 + disp ELSE pc + 2]
            /\ mem = before.mem

\* BEQ -2 at $1002 taken with the Z that MOVEQ #0, D1 set
C25_Witness ==
    /\ Stepped /\ steps = 2
    /\ before.instruction = 26622
    /\ before.cpu.program_counter = 4098
    /\ BitSet(before.cpu.condition_code_register, 4)
    /\ cpu.program_counter = 4098
    /\ cpu.data_registers = before.cpu.data_registers
    /\ cpu.condition_code_register = before.cpu.condition_code_register

-----------------------------------------------------------------------------
(* SUBQ.L #k, Dn assembled and executed after MOVEQ #v, Dn.                   *)

MaxSubqSteps == 3

SubqImmediates == {-128, -1, 0, 1, 2, 7, 8, 9, 15, 16, 127, 128}

SubqValues == {-128, 0, 5, 8}

SubqRegisters == {0, 1, 7}

SubqProgram(n, v, k) ==
    << Indent \o "ORG $1000",
       Indent \o "MOVEQ #" \o ToDec(v) \o ", D" \o ToDec(n),
       Indent \o "SUBQ.L #" \o ToDec(k) \o ", D" \o ToDec(n),
       Indent \o "SIMHALT" >>

InitSubq ==
    /\ \E n \in SubqRegisters, v \in SubqValues, k \in SubqImmediates :
          Source(SubqProgram(n, v, k),
                 [RunInput("subq") EXCEPT !.max_steps = MaxSubqSteps]
                     @@ [n |-> n, v |-> v, k |-> k])
    /\ checked \in BOOLEAN

SpecSubq == InitSubq /\ [][RunNext]_vars

\* the word the SUBQ line emitted, at $1002
SubqWords == {code[i][2] : i \in {j \in 1..Len(code) : code[j][1] = 4098}}

\* C26: whenever the assembler emits a word for SUBQ.L #k, Dn it is the SUBQ
\* word of register n whose field is 0 for k = 8, and the step that executes it
\* leaves Dn = (Dn - k) mod 2^32, Z and N as that result has them and the PC
\* advanced by 2.
C26_SubqSubtracts ==
    /\ (phase # "source" /\ input.k = 8) => SubqWords = {20864 + input.n}
    /\ (Executed /\ before.cpu.program_counter = 4098 /\ SubqWords # {}) =>
          /\ before.instruction \in SubqWords
          /\ cpu.data_registers[input.n] = WrappingSub(input.v, input.k)
          /\ FlagsFollow(WrappingSub(input.v, input.k))
          /\ cpu.program_counter = 4100

-----------------------------------------------------------------------------
(* Compare and subtract steps.                                                *)

\* the CPU after the last step differs from the CPU before it at most in the
\* PC, advanced by n, and in Z and N, which are those of result
OnlyFlagsAndPc(c, n, result) ==
    /\ c = [before.cpu EXCEPT !.program_counter = @ + n,
                              !.condition_code_register = c.condition_code_register]
    /\ c.condition_code_register % 4 = before.cpu.condition_code_register % 4
    /\ c.condition_code_register \div 16 = before.cpu.condition_code_register \div 16
    /\ FlagsFollow(result)

\* C27: CMP Ds,Dd and CMPI.L #imm,Dd leave every data and address register and
\* memory as they were, set Z/N from Dd - source and advance the PC by 2 and by
\* 4; SUB Ds,Dd stores the same difference in Dd and changes no other register.
C27_CompareFrame ==
    LET w == before.instruction
        c == before.cpu
        opcode == (w \div 4096) % 16
        dest == c.data_registers[(w \div 512) % 8]
        src == c.data_registers[w % 8]
        diff == WrappingSub(dest, src)
        imm == read_word(before.mem, c.program_counter + 2)
    IN  Stepped =>
            /\ (opcode \in {9, 11} \/ IsCmpi(w)) => mem = before.mem
            /\ opcode = 11 => OnlyFlagsAndPc(cpu, 2, diff)
            /\ IsCmpi(w) => OnlyFlagsAndPc(cpu, 4, WrappingSub(src, imm))
            /\ opcode = 9 =>
                  OnlyFlagsAndPc([cpu EXCEPT !.data_registers[(w \div 512) % 8] = dest], 2, diff)
                  /\ cpu.data_registers[(w \div 512) % 8] = diff

\* CMP D1, D0 with D0 = 0 and D1 = -1 after SUBQ #1, D1: the difference 1
\* clears N, D0 stays 0
C27_Witness ==
    /\ Stepped /\ steps = 2
    /\ before.instruction = 45121
    /\ before.cpu.condition_code_register = 8
    /\ cpu.condition_code_register = 0
    /\ cpu.data_registers[0] = 0 /\ cpu.data_registers[1] = -1
    /\ cpu.program_counter = before.cpu.program_counter + 2

-----------------------------------------------------------------------------
(* The END directive and labels whose name begins with END: the program of    *)
(* test_branch_instructions around its last label.                            *)

MaxEndSteps == 3

EndOrigins == { <<"$1000", 4096>>, <<"$2000", 8192>>, <<"$3000", 12288>> }

\* the line before NOP: the END directive as written, or a label definition
\* and the name it defines
EndLines ==
    { [text |-> "END", label |-> ""], [text |-> "end", label |-> ""],
      [text |-> "    END", label |-> ""], [text |-> "END start", label |-> ""],
      [text |-> "end:", label |-> "end"], [text |-> "END:", label |-> "END"],
      [text |-> "End:", label |-> "End"], [text |-> "endloop:", label |-> "endloop"],
      [text |-> "    end:", label |-> "end"], [text |-> "done:", label |-> "done"],
      [text |-> "zero:", label |-> "zero"], [text |-> "the_end:", label |-> "the_end"] }

EndBranches == {"BRA", "BEQ"}

EndProgram(origin, mn, line) ==
    << "ORG " \o origin,
       "start:",
       "MOVEQ #0, D0",
       mn \o " " \o (IF line.label = "" THEN "start" ELSE line.label),
       "MOVEQ #99, D2",
       line.text,
       "NOP",
       "SIMHALT" >>

InitEnd ==
    /\ \E origin \in EndOrigins, mn \in EndBranches, line \in EndLines :
          Source(EndProgram(origin[1], mn, line),
                 [RunInput("end") EXCEPT !.max_steps = MaxEndSteps]
                     @@ [base |-> origin[2], mn |-> mn, line |-> line])
    /\ checked \in BOOLEAN

SpecEnd == InitEnd /\ [][RunNext]_vars

\* C28: pass 1 stops at the END directive and nowhere else: after END no entry
\* and no label is added; a label line such as `end:` binds its name to the
\* address of the line after it, the branch to it is encoded, the lines after
\* it are assembled and the taken branch reaches them.
C28_StopsOnlyAtEnd ==
    LET base == input.base
        branch == 24576 + BranchCondition[input.mn] * 256
    IN  /\ (phase # "source" /\ input.line.label = "") =>
              /\ asm.labels = [start |-> base]
              /\ code = << <<base, 28672>>, <<base + 2, branch + 252>>,
                           <<base + 4, 29795>> >>
        /\ (phase # "source" /\ input.line.label # "") =>
              /\ Get(asm.labels, input.line.label) = Some(base + 6)
              /\ code = << <<base, 28672>>, <<base + 2, branch + 2>>,
                           <<base + 4, 29795>>, <<base + 6, NOP>>,
                           <<base + 8, SIMHALT>> >>
        /\ (Executed /\ steps = 3 /\ input.line.label # "") =>
              /\ before.instruction = NOP
              /\ before.cpu.program_counter = base + 6

-----------------------------------------------------------------------------
(* Layout: a labelled line and an ORG line between instructions, a DC.L       *)
(* after the last instruction.                                                *)

MaxLayoutSteps == 2

\* the line that defines L: what follows the label on it, the bytes that
\* occupies and the words it emits
LabelledLines ==
    { [text |-> "L:", kind |-> "none", size |-> 0, words |-> <<>>],
      [text |-> "    L:", kind |-> "none", size |-> 0, words |-> <<>>],
      [text |-> "L: NOP", kind |-> "instruction", size |-> 2, words |-> <<NOP>>],
      [text |-> "L:NOP", kind |-> "instruction", size |-> 2, words |-> <<NOP>>],
      [text |-> "L: MOVE.L #9, D2", kind |-> "instruction", size |-> 4,
       words |-> <<9724, 9>>],
      [text |-> "L: DC.L 5", kind |-> "data", size |-> 4, words |-> <<0, 5>>],
      [text |-> "L DC.L 5", kind |-> "data", size |-> 4, words |-> <<0, 5>>],
      [text |-> "L: ORG $2000", kind |-> "org", size |-> 0, words |-> <<>>] }

\* an ORG line and the address it sets, None when its operand does not parse
OrgLines ==
    { [text |-> "ORG 8192", target |-> Some(8192)],
      [text |-> "ORG $2000", target |-> Some(8192)],
      [text |-> "ORG 0x1800", target |-> Some(6144)],
      [text |-> "    org $1800", target |-> Some(6144)],
      [text |-> "ORG", target |-> None],
      [text |-> "ORG xyz", target |-> None],
      [text |-> "ORG $", target |-> None],
      [text |-> "ORG #$2000", target |-> None] }

LayoutProgram(labelled, org) ==
    << "ORG $1000",
       "MOVEQ #0, D0",
       labelled.text,
       org.text,
       "MOVEQ #1, D1",
       "MOVE.L #7, D0",
       "SIMHALT",
       "DC.L 66000" >>

InitLayout ==
    /\ \E labelled \in LabelledLines, org \in OrgLines :
          Source(LayoutProgram(labelled, org),
                 [RunInput("layout") EXCEPT !.max_steps = MaxLayoutSteps]
                     @@ [labelled |-> labelled, org |-> org])
    /\ checked \in BOOLEAN

SpecLayout == InitLayout /\ [][RunNext]_vars

\* the addresses of the entries that carry word w
AddressesOf(w) == {code[i][1] : i \in {j \in 1..Len(code) : code[j][2] = w}}

\* the address of the item after the ORG line, L being at $1002
NextItemAddress ==
    LET after_label == IF input.labelled.kind = "org" THEN 8192
                       ELSE 4098 + input.labelled.size
    IN  IF IsSome(input.org.target) THEN Unwrap(input.org.target) ELSE after_label

\* C29: a label alone on its line or followed by an instruction or directive
\* is bound to the address of the next item and occupies nothing; ORG a emits
\* nothing and places the next item at a; an ORG whose operand does not parse
\* leaves the address as it was.
C29_ZeroWidth ==
    phase # "source" =>
        /\ asm.labels = [L |-> 4098]
        /\ input.labelled.words # <<>> => AddressesOf(input.labelled.words[1]) = {4098}
        /\ AddressesOf(29185) = {NextItemAddress}
        /\ AddressesOf(SIMHALT) = {NextItemAddress + 6}
        /\ Len(code) = 7 + Len(input.labelled.words)

\* the words of the stream, in its order
StreamWords == [i \in 1..Len(code) |-> code[i][2]]

\* C30: the stream holds the data words first, in source order, then the
\* instruction words in source order; the two words of a data value are at a and
\* a + 2, and an extension word is the entry after its opcode, at its address
\* + 2.
C30_StreamOrder ==
    phase # "source" =>
        /\ StreamWords =
               (IF input.labelled.kind = "data" THEN <<0, 5>> ELSE <<>>) \o <<1, 464>>
               \o <<28672>>
               \o (IF input.labelled.kind = "instruction" THEN input.labelled.words
                   ELSE <<>>)
               \o <<29185, 8700, 7, SIMHALT>>
        /\ \A i \in 1..Len(code) :
              code[i][2] \in {8700, 9724, 1} \/ (code[i][2] = 0 /\ code[i + 1][2] = 5)
                  => code[i + 1][1] = code[i][1] + 2

\* L: DC.L 5 in the middle of the instructions: both data values come first,
\* the extension word 7 follows its opcode
C30_Witness ==
    /\ phase = "assembled"
    /\ input.labelled.text = "L: DC.L 5" /\ input.org.text = "ORG $2000"
    /\ code = << <<4098, 0>>, <<4100, 5>>, <<8200, 1>>, <<8202, 464>>,
                 <<4096, 28672>>, <<8192, 29185>>, <<8194, 8700>>, <<8196, 7>>,
                 <<8198, SIMHALT>> >>

-----------------------------------------------------------------------------
(* Indirect moves: a store through Am and a load through the same Am, as      *)
(* test_indirect_write and test_movea_indirect_addressing.                    *)

MaxIndirectSteps == 5

\* the address of BUFFER, which MOVEA.L loads into Am, as written and as a
\* number
IndirectAddresses ==
    { <<"0", 0>>, <<"$0800", 2048>>, <<"$0801", 2049>>, <<"$1000", 4096>>,
      <<"$1008", 4104>>, <<"$FFFE", 65534>> }

IndirectValues == {-128, -1, 0, 1, 127}

IndirectProgram(at, v, n, m, k) ==
    << Indent \o "ORG " \o at,
       "BUFFER: DS.L 1",
       Indent \o "ORG $1000",
       Indent \o "MOVEA.L #BUFFER, A" \o ToDec(m),
       Indent \o "MOVEQ #" \o ToDec(v) \o ", D" \o ToDec(n),
       Indent \o "MOVE.L D" \o ToDec(n) \o ", (A" \o ToDec(m) \o ")",
       Indent \o "MOVE.L (A" \o ToDec(m) \o "), D" \o ToDec(k),
       Indent \o "SIMHALT" >>

InitIndirect ==
    /\ \E at \in IndirectAddresses, v \in IndirectValues,
          n \in {0, 3}, m \in {0, 7}, k \in {1, 3} :
          Source(IndirectProgram(at[1], v, n, m, k),
                 [RunInput("indirect") EXCEPT !.max_steps = MaxIndirectSteps]
                     @@ [at |-> at[2], v |-> v, n |-> n, m |-> m, k |-> k])
    /\ checked \in BOOLEAN

SpecIndirect == InitIndirect /\ [][RunNext]_vars

\* the four bytes of the 32-bit pattern of v, most significant first, for v
\* in -128..127
BigEndian(v) == IF v < 0 THEN <<255, 255, 255, 256 + v>> ELSE <<0, 0, 0, v>>

\* the bytes of the program and those around the address in Am
IndirectBytes == {b \in (4096..4110) \cup ((input.at - 2)..(input.at + 5)) : InMem(b)}

StoreExecuted ==
    /\ Executed /\ steps = 3
    /\ before.instruction = 8320 + 512 * input.m + input.n

LoadExecuted31 ==
    /\ Executed /\ steps = 4
    /\ before.instruction = 8208 + 512 * input.k + input.m
    /\ before.cpu.program_counter = 4104

\* C31: MOVE.L Dn,(Am) writes Dn big-endian at the address in Am, changing no
\* other byte and no register but PC += 2; MOVE.L (Am),Dk loads the long at that
\* address into Dk with PC += 2 and changes nothing else; a store followed by a
\* load through the same Am leaves Dk = Dn.
C31_IndirectRoundTrip ==
    /\ StoreExecuted =>
          /\ before.cpu.address_registers[input.m] = input.at
          /\ before.cpu.data_registers[input.n] = input.v
          /\ cpu = [before.cpu EXCEPT !.program_counter = @ + 2]
          /\ \A i \in 0..3 : read_byte(mem, input.at + i) = BigEndian(input.v)[i + 1]
          /\ \A b \in IndirectBytes \ (input.at..(input.at + 3)) :
                read_byte(mem, b) = read_byte(before.mem, b)
    /\ LoadExecuted31 =>
          /\ cpu = [before.cpu EXCEPT !.program_counter = @ + 2,
                                      !.data_registers[input.k] = input.v]
          /\ cpu.address_registers[input.m] = input.at
          /\ mem = before.mem

\* -128 stored from D3 through A7 at the odd address $0801 and loaded into D1
C31_Witness ==
    /\ LoadExecuted31
    /\ input.at = 2049 /\ input.v = -128 /\ input.n = 3 /\ input.m = 7 /\ input.k = 1
    /\ cpu.data_registers[1] = -128 /\ cpu.data_registers[3] = -128
    /\ read_byte(mem, 2049) = 255 /\ read_byte(mem, 2052) = 128
    /\ cpu.program_counter = 4106

-----------------------------------------------------------------------------
(* The size of pass 1 against the words of pass 2, for the sized lines.       *)

\* the entries of the instructions: those after the six words of the three
\* DC.L values
InstructionEntries == SubSeq(code, 7, Len(code))

\* the words emitted for the line at $1000: all but the SIMHALT of NEXT
LineWords == Len(InstructionEntries) - 1

\* C32: a line that encodes is given in pass 1 twice as many bytes as pass 2
\* emits words for it, so no two instruction entries have the same address.
C32_SizeMatchesWords ==
    (phase # "source" /\ LineWords > 0) =>
        /\ InstructionEntries[1][1] = 4096
        /\ asm.instructions[1].size = 2 * LineWords
        /\ \A i, j \in 1..Len(InstructionEntries) :
              i < j => InstructionEntries[i][1] # InstructionEntries[j][1]

-----------------------------------------------------------------------------
(* DC.W and DC.B: a narrow data item followed by a data item or an            *)
(* instruction.                                                               *)

MaxNarrowSteps == 3

NarrowAddresses == { <<"$0800", 2048>>, <<"$0802", 2050>>, <<"2049", 2049>> }

\* the directive as written and the bytes it reserves
NarrowForms == { <<"DC.W", 2>>, <<"dc.w", 2>>, <<"DC.B", 1>> }

NarrowValues == { <<"0", 0>>, <<"1", 1>>, <<"255", 255>>, <<"$1234", 4660>> }

\* the item placed after the narrow one, and the number of its entries
NextItems == { <<"W: DC.L 16909060", 2>>, <<"W: NOP", 1>> }

NarrowProgram(at, dc, v, next) ==
    << Indent \o "ORG $1000",
       Indent \o "MOVEQ #1, D0",
       Indent \o "SIMHALT",
       Indent \o "ORG " \o at,
       "V: " \o dc \o " " \o v,
       next >>

InitNarrow ==
    /\ \E at \in NarrowAddresses, dc \in NarrowForms, v \in NarrowValues,
          next \in NextItems :
          Source(NarrowProgram(at[1], dc[1], v[1], next[1]),
                 [RunInput("narrow") EXCEPT !.max_steps = MaxNarrowSteps]
                     @@ [a |-> at[2], size |-> dc[2], v |-> v[2], others |-> next[2] + 2])
    /\ checked \in BOOLEAN

SpecNarrow == InitNarrow /\ [][RunNext]_vars

\* the entries emitted for V: the data entries come first, V's before W's
NarrowEntries == SubSeq(code, 1, Len(code) - input.others)

\* C33: the entries emitted for DC.W v or DC.B v at a lie inside a..a+size-1,
\* so none reaches the item placed next at a+size; DC.W v emits the word v at a,
\* and after loading the word at a is v and the next item is as assembled.
C33_DataInsideReservation ==
    /\ phase # "source" =>
          /\ asm.labels = [V |-> input.a, W |-> input.a + input.size]
          /\ \A i \in 1..Len(NarrowEntries) :
                /\ input.a <= NarrowEntries[i][1]
                /\ NarrowEntries[i][1] + 2 <= input.a + input.size
          /\ input.size = 2 => NarrowEntries = << <<input.a, input.v>> >>
    /\ (phase = "running" /\ fault = "none") =>
          /\ input.size = 2 => read_word(mem, input.a) = input.v
          /\ input.others = 4 => read_long(mem, input.a + input.size) = 16909060
          /\ input.others = 3 => read_word(mem, input.a + input.size) = NOP

-----------------------------------------------------------------------------
(* The signed conditional branches, executed.                                 *)

\* the test a branch mnemonic names, on the flags the branch is executed
\* with; V is bit 1 of the CCR
NamedCondition(mn, ccr) ==
    LET n == BitSet(ccr, 8)
        z == BitSet(ccr, 4)
        v == BitSet(ccr, 2)
    IN  CASE mn = "BPL" -> ~n
          [] mn = "BMI" -> n
          [] mn = "BGE" -> n = v
          [] mn = "BLT" -> n # v
          [] mn = "BGT" -> ~z /\ n = v
          [] mn = "BLE" -> z \/ n # v
          [] OTHER -> FALSE

\* the last step executed the word emitted for the branch line, whose
\* displacement is not 0
BranchExecuted ==
    /\ Stepped
    /\ EntriesAt(BranchInst.address) # {}
    /\ before.cpu.program_counter = BranchInst.address
    /\ before.instruction = BranchWord
    /\ BranchWord % 256 # 0

\* C34: the word emitted for BPL, BMI, BGE, BLT, BGT or BLE is taken by the CPU
\* exactly when the condition of its name holds in the flags.
C34_SignedBranches ==
    (BranchExecuted /\ input.mn \in {"BPL", "BMI", "BGE", "BLT", "BGT", "BLE"}) =>
        (cpu.program_counter # before.cpu.program_counter + 2
             <=> NamedCondition(input.mn, before.cpu.condition_code_register))

-----------------------------------------------------------------------------
(* The words of TST, ASL and DBRA, executed after MOVEQ #3, D0.               *)

\* the last step executed the word of the form, at $1002
FormExecuted == Executed /\ before.cpu.program_counter = 4098

\* the data registers after the step are those before it, but for D0 = v
OnlyD0(v) == cpu.data_registers = [before.cpu.data_registers EXCEPT ![0] = v]

\* C35: the word emitted for TST D0, ASL #1, D0 or DBRA D0, +2 is executed as
\* that instruction or as a no-op that advances the PC by 2: D0 = 3 is left as
\* it is, or shifted to 6 by ASL, or decremented to 2 by DBRA; no other
\* register and no memory changes.
C35_OwnSemantics ==
    (FormExecuted /\ input.form \in {"TST D0", "ASL #1, D0", "DBRA D0, +2"}) =>
        /\ before.cpu.data_registers[0] = 3
        /\ mem = before.mem
        /\ cpu.address_registers = before.cpu.address_registers
        /\ \/ cpu = [before.cpu EXCEPT !.program_counter = @ + 2]
           \/ input.form = "TST D0" /\ OnlyD0(3)
           \/ input.form = "ASL #1, D0" /\ OnlyD0(6)
           \/ input.form = "DBRA D0, +2" /\ OnlyD0(2)

-----------------------------------------------------------------------------
(* The memory a step may change.                                              *)

\* C36: a step changes memory only when the fetched word is MOVE.L Dn,(Am)
\* (top nibble 2, destination mode 2, source mode 0), and then only the four
\* bytes at the address in Am.
C36_MemoryFrame ==
    LET w == before.instruction
        store == w \div 4096 = 2 /\ (w \div 64) % 8 = 2 /\ (w \div 8) % 8 = 0
        address == before.cpu.address_registers[(w \div 512) % 8]
    IN  Stepped =>
            IF store
            THEN \A b \in (DOMAIN mem \cup DOMAIN before.mem)
                              \ (address..(address + 3)) :
                     read_byte(mem, b) = read_byte(before.mem, b)
            ELSE mem = before.mem

\* MOVE.L D0, (A0) with A0 = $1000 set by MOVEA.L: the store clears the two
\* words of the MOVEA.L itself
C36_Witness ==
    /\ Stepped /\ steps = 2
    /\ before.instruction = 8320
    /\ before.cpu.address_registers[0] = 4096
    /\ read_word(before.mem, 4096) = 8316
    /\ read_long(mem, 4096) = 0
    /\ read_word(mem, 4100) = 8320
    /\ mem # before.mem

-----------------------------------------------------------------------------
(* Arithmetic at the ends of the 32-bit range: D0 loaded from the long at     *)
(* address 0, D1 from MOVEQ, then one ADD, SUB, ADDQ or SUBQ on D0.           *)

MaxWideSteps == 4

\* the long at address 0: its high and low words and its value as an i32
WideValues ==
    { <<32767, 65535, MaxI32>>, <<32767, 65528, MaxI32 - 7>>, <<32768, 0, MinI32>>,
      <<32768, 7, MinI32 + 7>>, <<65535, 65535, -1>>, <<0, 0, 0>>, <<0, 1, 1>> }

WideOperands == {-128, -1, 1, 127}

\* ADD D1,D0  SUB D1,D0  ADDQ #1,D0  ADDQ #8,D0  SUBQ #1,D0  SUBQ #8,D0
WideWords == {53313, 36929, 21120, 20608, 21376, 20864}

InitWide ==
    /\ \E x \in WideValues, k \in WideOperands, w \in WideWords :
          /\ mem = write_word(write_word(write_word(write_word(
                       write_long(NewMemory, 0, x[3]),
                       4096, 8208), 4098, 29184 + (k % 256)), 4100, w), 4102, SIMHALT)
          /\ input = [run |-> TRUE, poll |-> FALSE, max_steps |-> MaxWideSteps,
                      entry |-> Some(4096), kind |-> "wide",
                      high |-> x[1], low |-> x[2], x |-> x[3], k |-> k, w |-> w]
    /\ cpu = set_pc(NewCPU, 4096)
    /\ asm = NewAssembler
    /\ lines = <<>>
    /\ code = <<>>
    /\ checked \in BOOLEAN
    /\ fault = "none"
    /\ before = NoStep
    /\ last = NoCall
    /\ phase = "running"
    /\ steps = 0

SpecWide == InitWide /\ [][Step]_vars

\* the second operand of the word at $1004
WideOperand ==
    CASE input.w \in {53313, 36929} -> input.k
      [] input.w \in {21120, 21376} -> 1
      [] OTHER -> 8

\* x + y modulo 2^32, as an i32, for an i32 x and -128 <= y <= 127
Modular(x, y) ==
    IF y > 0 /\ x > MaxI32 - y THEN MinI32 + (y - (MaxI32 - x) - 1)
    ELSE IF y < 0 /\ x < MinI32 - y THEN MaxI32 - ((-y) - (x - MinI32) - 1)
    ELSE x + y

\* C37: ADD, SUB, ADDQ and SUBQ complete for all register contents and store
\* the sum or difference modulo 2^32, with N set from bit 31 of the stored value.
C37_TotalArithmetic ==
    /\ fault = "none"
    /\ (phase = "running" /\ steps >= 2) =>
          /\ cpu.data_registers[1] = input.k
          /\ read_word(mem, 0) = input.high /\ read_word(mem, 2) = input.low
    /\ (Stepped /\ before.cpu.program_counter = 4100) =>
          /\ before.cpu.data_registers[0] = input.x
          /\ cpu.data_registers[0] =
                 Modular(input.x, IF input.w \in {53313, 21120, 20608}
                                  THEN WideOperand ELSE -WideOperand)
          /\ BitSet(cpu.condition_code_register, 8) <=> cpu.data_registers[0] < 0

-----------------------------------------------------------------------------
(* The registers a step may change.                                           *)

\* the data registers the last step changed
ChangedData == {r \in Regs : cpu.data_registers[r] # before.cpu.data_registers[r]}

\* C38: a step leaves SR, SSP and VBR as they were, changes an address register
\* only when the word is MOVEA.L #imm,An and changes at most one data register;
\* in every state SR is 0 or 0x2700, after a reset 0x2700, and the CCR is 0x00,
\* 0x04 or 0x08.
C38_RegisterFrame ==
    /\ cpu.status_register \in {0, 9984}
    /\ last.op = "reset" => cpu.status_register = 9984
    /\ cpu.condition_code_register \in {0, 4, 8}
    /\ cpu.supervisor_stack_pointer = 0 /\ cpu.vector_base_register = 0
    /\ Executed =>
          LET w == before.instruction
          IN  /\ cpu.status_register = before.cpu.status_register
              /\ cpu.supervisor_stack_pointer = before.cpu.supervisor_stack_pointer
              /\ cpu.vector_base_register = before.cpu.vector_base_register
              /\ cpu.address_registers # before.cpu.address_registers =>
                    /\ w \div 4096 = 2 /\ (w \div 64) % 8 = 1 /\ w % 64 = 60
                    /\ cpu.address_registers =
                           [before.cpu.address_registers EXCEPT
                                ![(w \div 512) % 8] = cpu.address_registers[(w \div 512) % 8]]
              /\ Cardinality(ChangedData) <= 1

\* MOVEQ #-1, D0 executed at address 0 after a reset: SR stays 0x2700, N is
\* set, D0 alone has changed
C38_Witness ==
    /\ Executed /\ before.instruction = 28927
    /\ before.cpu.status_register = 9984 /\ cpu.status_register = 9984
    /\ before.cpu.program_counter = 0
    /\ cpu.condition_code_register = 8
    /\ ChangedData = {0}

-----------------------------------------------------------------------------
(* One label name defined on up to three lines, referred to before and        *)
(* between the definitions.                                                   *)

MaxLabelSteps == 3

\* the lines that define L: at the first MOVEQ, at the second NOP, at SIMHALT
LabelDefinitions == (SUBSET {1, 2, 3}) \ {{}}

\* the first reference, the bytes pass 1 gives it and its opcode word
LabelReferences ==
    { [text |-> "BRA L", size |-> 2, word |-> 24576],
      [text |-> "BEQ L", size |-> 2, word |-> 26368],
      [text |-> "MOVEA.L #L, A1", size |-> 4, word |-> 8828],
      [text |-> "MOVE.L L, D1", size |-> 4, word |-> 8824] }

\* the instruction, with the definition of L on its line or on a line before it
Defined(here, inline, instruction) ==
    IF ~here THEN << Indent \o instruction >>
    ELSE IF inline THEN << "L: " \o instruction >>
    ELSE << "L:", Indent \o instruction >>

LabelProgram(defs, inline, ref) ==
    << Indent \o "ORG $1000" >>
    \o Defined(1 \in defs, inline, "MOVEQ #1, D0")
    \o << Indent \o ref, Indent \o "NOP" >>
    \o Defined(2 \in defs, inline, "NOP")
    \o << Indent \o "BNE L" >>
    \o Defined(3 \in defs, inline, "SIMHALT")

InitLabel ==
    /\ \E defs \in LabelDefinitions, inline \in BOOLEAN, ref \in LabelReferences :
          Source(LabelProgram(defs, inline, ref.text),
                 [RunInput("label") EXCEPT !.max_steps = MaxLabelSteps]
                     @@ [defs |-> defs, inline |-> inline, ref |-> ref])
    /\ checked \in BOOLEAN

SpecLabel == InitLabel /\ [][RunNext]_vars

\* the address of the last line that defines L
LastDefinition ==
    IF 3 \in input.defs THEN 4104 + input.ref.size
    ELSE IF 2 \in input.defs THEN 4100 + input.ref.size
    ELSE 4096

\* the low byte of a branch at address a to the last definition
ByteTo(a) == (LastDefinition - (a + 2)) % 256

\* C39: L defined on several lines is bound to the address of its last
\* definition, and every reference, before or after that line, is encoded with
\* that address; all lines are assembled, and the executed reference reaches it.
C39_LastDefinition ==
    LET s == input.ref.size
        first == IF s = 2 THEN << <<4098, input.ref.word + ByteTo(4098)>> >>
                 ELSE << <<4098, input.ref.word>>, <<4100, LastDefinition>> >>
    IN  /\ phase # "source" =>
              /\ asm.labels = [L |-> LastDefinition]
              /\ code = << <<4096, 28673>> >> \o first
                        \o << <<4098 + s, NOP>>, <<4100 + s, NOP>>,
                              <<4102 + s, 26112 + ByteTo(4102 + s)>>,
                              <<4104 + s, SIMHALT>> >>
        /\ steps = 0 => fault = "none"
        /\ (Executed /\ before.cpu.program_counter = 4098) =>
              /\ input.ref.text = "BRA L" => cpu.program_counter = LastDefinition
              /\ input.ref.text = "BEQ L" => cpu.program_counter = 4100
              /\ input.ref.text = "MOVEA.L #L, A1" =>
                    cpu.address_registers[1] = LastDefinition

\* L defined at the first line and again at SIMHALT: BRA L, between the two,
\* goes to the second
C39_Witness ==
    /\ Executed /\ before.cpu.program_counter = 4098
    /\ input.defs = {1, 3} /\ input.ref.text = "BRA L" /\ ~input.inline
    /\ asm.labels = [L |-> 4106]
    /\ before.instruction = 24582
    /\ cpu.program_counter = 4106

====
